---- MODULE Spec2Model ----
(***************************************************************************)
(* Model of the query-building data-access layer of projects_management:  *)
(* pkg/orm/orm.go (builder, statement cache, executor, Cleanup) together   *)
(* with the container / application lifecycle that opens and closes the   *)
(* connection pool, UserRepository.GetByID on top of First, and            *)
(* UserHandler.CreateUser with the Validator the handler shares.           *)
(*                                                                         *)
(* Go strings that the code inspects rune by rune (identifiers, operators) *)
(* are sequences of one-character strings, a rune outside ASCII being      *)
(* written by its code point; rendered SQL is a TLA+ string.               *)
(***************************************************************************)
EXTENDS Integers, Sequences, FiniteSets, TLC

(***************************************************************************)
(* Bounds of the model.                                                    *)
(***************************************************************************)
NumCallers == 2
MaxStmts == 2
MaxRows == 2
MaxPreds == 1
MaxJoins == 1
MaxRenderPreds == 2
MaxIdentLen == 3

Callers == 1..NumCallers

(***************************************************************************)
(* Runes and strings.                                                      *)
(***************************************************************************)
LowerRunes ==
  <<"a","b","c","d","e","f","g","h","i","j","k","l","m",
    "n","o","p","q","r","s","t","u","v","w","x","y","z">>

UpperRunes ==
  <<"A","B","C","D","E","F","G","H","I","J","K","L","M",
    "N","O","P","Q","R","S","T","U","V","W","X","Y","Z">>

DigitRunes == <<"0","1","2","3","4","5","6","7","8","9">>

RuneSet(rs) == {rs[i] : i \in 1..Len(rs)}

RECURSIVE Str(_)
Str(s) == IF s = <<>> THEN "" ELSE s[1] \o Str(Tail(s))

RECURSIVE StringsJoin(_, _)
StringsJoin(elems, sep) ==
  IF elems = <<>> THEN ""
  ELSE IF Len(elems) = 1 THEN elems[1]
  ELSE elems[1] \o sep \o StringsJoin(Tail(elems), sep)

HexDigits == "0123456789ABCDEF"

RECURSIVE HexValue(_)
HexValue(digits) ==
  IF Len(digits) = 0 THEN 0
  ELSE 16 * HexValue(SubSeq(digits, 1, Len(digits) - 1))
         + (CHOOSE d \in 0..15 :
              SubSeq(HexDigits, d + 1, d + 1) = SubSeq(digits, Len(digits), Len(digits)))

RECURSIVE HexText(_, _)
HexText(n, width) ==
  IF n = 0 /\ width <= 0 THEN ""
  ELSE HexText(n \div 16, width - 1) \o SubSeq(HexDigits, (n % 16) + 1, (n % 16) + 1)

\* The code point of a rune written as U+ and its hexadecimal digits.
CodePoint(r) == HexValue(SubSeq(r, 3, Len(r)))

\* The rune of a code point: the letter itself for A-Z, else U+ and at least
\* four hexadecimal digits.
RuneOf(cp) ==
  IF cp \in 65..90 THEN UpperRunes[cp - 64] ELSE "U+" \o HexText(cp, 4)

\* unicode.ToUpper outside ASCII: the runes lo, lo + stride, ..., hi map to
\* themselves plus delta, <<lo, hi, stride, delta>>; every other rune outside
\* ASCII is its own upper case. Two of the runes map into ASCII: U+0131 to I
\* and U+017F to S.
UpperRanges ==
  <<
     <<\H00B5, \H00B5, 1, 743>>, <<\H00E0, \H00F6, 1, -32>>, <<\H00F8, \H00FE, 1, -32>>,
     <<\H00FF, \H00FF, 1, 121>>, <<\H0101, \H012F, 2, -1>>, <<\H0131, \H0131, 1, -232>>,
     <<\H0133, \H0137, 2, -1>>, <<\H013A, \H0148, 2, -1>>, <<\H014B, \H0177, 2, -1>>,
     <<\H017A, \H017E, 2, -1>>, <<\H017F, \H017F, 1, -300>>, <<\H0180, \H0180, 1, 195>>,
     <<\H0183, \H0185, 2, -1>>, <<\H0188, \H0188, 1, -1>>, <<\H018C, \H018C, 1, -1>>,
     <<\H0192, \H0192, 1, -1>>, <<\H0195, \H0195, 1, 97>>, <<\H0199, \H0199, 1, -1>>,
     <<\H019A, \H019A, 1, 163>>, <<\H019E, \H019E, 1, 130>>, <<\H01A1, \H01A5, 2, -1>>,
     <<\H01A8, \H01A8, 1, -1>>, <<\H01AD, \H01AD, 1, -1>>, <<\H01B0, \H01B0, 1, -1>>,
     <<\H01B4, \H01B6, 2, -1>>, <<\H01B9, \H01B9, 1, -1>>, <<\H01BD, \H01BD, 1, -1>>,
     <<\H01BF, \H01BF, 1, 56>>, <<\H01C5, \H01C5, 1, -1>>, <<\H01C6, \H01C6, 1, -2>>,
     <<\H01C8, \H01C8, 1, -1>>, <<\H01C9, \H01C9, 1, -2>>, <<\H01CB, \H01CB, 1, -1>>,
     <<\H01CC, \H01CC, 1, -2>>, <<\H01CE, \H01DC, 2, -1>>, <<\H01DD, \H01DD, 1, -79>>,
     <<\H01DF, \H01EF, 2, -1>>, <<\H01F2, \H01F2, 1, -1>>, <<\H01F3, \H01F3, 1, -2>>,
     <<\H01F5, \H01F5, 1, -1>>, <<\H01F9, \H021F, 2, -1>>, <<\H0223, \H0233, 2, -1>>,
     <<\H023C, \H023C, 1, -1>>, <<\H023F, \H0240, 1, 10815>>, <<\H0242, \H0242, 1, -1>>,
     <<\H0247, \H024F, 2, -1>>, <<\H0250, \H0250, 1, 10783>>, <<\H0251, \H0251, 1, 10780>>,
     <<\H0252, \H0252, 1, 10782>>, <<\H0253, \H0253, 1, -210>>, <<\H0254, \H0254, 1, -206>>,
     <<\H0256, \H0257, 1, -205>>, <<\H0259, \H0259, 1, -202>>, <<\H025B, \H025B, 1, -203>>,
     <<\H025C, \H025C, 1, 42319>>, <<\H0260, \H0260, 1, -205>>, <<\H0261, \H0261, 1, 42315>>,
     <<\H0263, \H0263, 1, -207>>, <<\H0265, \H0265, 1, 42280>>, <<\H0266, \H0266, 1, 42308>>,
     <<\H0268, \H0268, 1, -209>>, <<\H0269, \H0269, 1, -211>>, <<\H026A, \H026A, 1, 42308>>,
     <<\H026B, \H026B, 1, 10743>>, <<\H026C, \H026C, 1, 42305>>, <<\H026F, \H026F, 1, -211>>,
     <<\H0271, \H0271, 1, 10749>>, <<\H0272, \H0272, 1, -213>>, <<\H0275, \H0275, 1, -214>>,
     <<\H027D, \H027D, 1, 10727>>, <<\H0280, \H0280, 1, -218>>, <<\H0282, \H0282, 1, 42307>>,
     <<\H0283, \H0283, 1, -218>>, <<\H0287, \H0287, 1, 42282>>, <<\H0288, \H0288, 1, -218>>,
     <<\H0289, \H0289, 1, -69>>, <<\H028A, \H028B, 1, -217>>, <<\H028C, \H028C, 1, -71>>,
     <<\H0292, \H0292, 1, -219>>, <<\H029D, \H029D, 1, 42261>>, <<\H029E, \H029E, 1, 42258>>,
     <<\H0345, \H0345, 1, 84>>, <<\H0371, \H0373, 2, -1>>, <<\H0377, \H0377, 1, -1>>,
     <<\H037B, \H037D, 1, 130>>, <<\H03AC, \H03AC, 1, -38>>, <<\H03AD, \H03AF, 1, -37>>,
     <<\H03B1, \H03C1, 1, -32>>, <<\H03C2, \H03C2, 1, -31>>, <<\H03C3, \H03CB, 1, -32>>,
     <<\H03CC, \H03CC, 1, -64>>, <<\H03CD, \H03CE, 1, -63>>, <<\H03D0, \H03D0, 1, -62>>,
     <<\H03D1, \H03D1, 1, -57>>, <<\H03D5, \H03D5, 1, -47>>, <<\H03D6, \H03D6, 1, -54>>,
     <<\H03D7, \H03D7, 1, -8>>, <<\H03D9, \H03EF, 2, -1>>, <<\H03F0, \H03F0, 1, -86>>,
     <<\H03F1, \H03F1, 1, -80>>, <<\H03F2, \H03F2, 1, 7>>, <<\H03F3, \H03F3, 1, -116>>,
     <<\H03F5, \H03F5, 1, -96>>, <<\H03F8, \H03F8, 1, -1>>, <<\H03FB, \H03FB, 1, -1>>,
     <<\H0430, \H044F, 1, -32>>, <<\H0450, \H045F, 1, -80>>, <<\H0461, \H0481, 2, -1>>,
     <<\H048B, \H04BF, 2, -1>>, <<\H04C2, \H04CE, 2, -1>>, <<\H04CF, \H04CF, 1, -15>>,
     <<\H04D1, \H052F, 2, -1>>, <<\H0561, \H0586, 1, -48>>, <<\H10D0, \H10FA, 1, 3008>>,
     <<\H10FD, \H10FF, 1, 3008>>, <<\H13F8, \H13FD, 1, -8>>, <<\H1C80, \H1C80, 1, -6254>>,
     <<\H1C81, \H1C81, 1, -6253>>, <<\H1C82, \H1C82, 1, -6244>>, <<\H1C83, \H1C84, 1, -6242>>,
     <<\H1C85, \H1C85, 1, -6243>>, <<\H1C86, \H1C86, 1, -6236>>, <<\H1C87, \H1C87, 1, -6181>>,
     <<\H1C88, \H1C88, 1, 35266>>, <<\H1D79, \H1D79, 1, 35332>>, <<\H1D7D, \H1D7D, 1, 3814>>,
     <<\H1D8E, \H1D8E, 1, 35384>>, <<\H1E01, \H1E95, 2, -1>>, <<\H1E9B, \H1E9B, 1, -59>>,
     <<\H1EA1, \H1EFF, 2, -1>>, <<\H1F00, \H1F07, 1, 8>>, <<\H1F10, \H1F15, 1, 8>>,
     <<\H1F20, \H1F27, 1, 8>>, <<\H1F30, \H1F37, 1, 8>>, <<\H1F40, \H1F45, 1, 8>>,
     <<\H1F51, \H1F57, 2, 8>>, <<\H1F60, \H1F67, 1, 8>>, <<\H1F70, \H1F71, 1, 74>>,
     <<\H1F72, \H1F75, 1, 86>>, <<\H1F76, \H1F77, 1, 100>>, <<\H1F78, \H1F79, 1, 128>>,
     <<\H1F7A, \H1F7B, 1, 112>>, <<\H1F7C, \H1F7D, 1, 126>>, <<\H1F80, \H1F87, 1, 8>>,
     <<\H1F90, \H1F97, 1, 8>>, <<\H1FA0, \H1FA7, 1, 8>>, <<\H1FB0, \H1FB1, 1, 8>>,
     <<\H1FB3, \H1FB3, 1, 9>>, <<\H1FBE, \H1FBE, 1, -7205>>, <<\H1FC3, \H1FC3, 1, 9>>,
     <<\H1FD0, \H1FD1, 1, 8>>, <<\H1FE0, \H1FE1, 1, 8>>, <<\H1FE5, \H1FE5, 1, 7>>,
     <<\H1FF3, \H1FF3, 1, 9>>, <<\H214E, \H214E, 1, -28>>, <<\H2170, \H217F, 1, -16>>,
     <<\H2184, \H2184, 1, -1>>, <<\H24D0, \H24E9, 1, -26>>, <<\H2C30, \H2C5F, 1, -48>>,
     <<\H2C61, \H2C61, 1, -1>>, <<\H2C65, \H2C65, 1, -10795>>, <<\H2C66, \H2C66, 1, -10792>>,
     <<\H2C68, \H2C6C, 2, -1>>, <<\H2C73, \H2C73, 1, -1>>, <<\H2C76, \H2C76, 1, -1>>,
     <<\H2C81, \H2CE3, 2, -1>>, <<\H2CEC, \H2CEE, 2, -1>>, <<\H2CF3, \H2CF3, 1, -1>>,
     <<\H2D00, \H2D25, 1, -7264>>, <<\H2D27, \H2D27, 1, -7264>>, <<\H2D2D, \H2D2D, 1, -7264>>,
     <<\HA641, \HA66D, 2, -1>>, <<\HA681, \HA69B, 2, -1>>, <<\HA723, \HA72F, 2, -1>>,
     <<\HA733, \HA76F, 2, -1>>, <<\HA77A, \HA77C, 2, -1>>, <<\HA77F, \HA787, 2, -1>>,
     <<\HA78C, \HA78C, 1, -1>>, <<\HA791, \HA793, 2, -1>>, <<\HA794, \HA794, 1, 48>>,
     <<\HA797, \HA7A9, 2, -1>>, <<\HA7B5, \HA7C3, 2, -1>>, <<\HA7C8, \HA7CA, 2, -1>>,
     <<\HA7D1, \HA7D1, 1, -1>>, <<\HA7D7, \HA7D9, 2, -1>>, <<\HA7F6, \HA7F6, 1, -1>>,
     <<\HAB53, \HAB53, 1, -928>>, <<\HAB70, \HABBF, 1, -38864>>, <<\HFF41, \HFF5A, 1, -32>>,
     <<\H10428, \H1044F, 1, -40>>, <<\H104D8, \H104FB, 1, -40>>, <<\H10597, \H105A1, 1, -39>>,
     <<\H105A3, \H105B1, 1, -39>>, <<\H105B3, \H105B9, 1, -39>>, <<\H105BB, \H105BC, 1, -39>>,
     <<\H10CC0, \H10CF2, 1, -64>>, <<\H118C0, \H118DF, 1, -32>>, <<\H16E60, \H16E7F, 1, -32>>,
     <<\H1E922, \H1E943, 1, -34>>
  >>

\* unicode.ToUpper
ToUpperRune(r) ==
  IF r \in RuneSet(LowerRunes)
    THEN UpperRunes[CHOOSE i \in 1..Len(LowerRunes) : LowerRunes[i] = r]
  ELSE IF Len(r) = 1 THEN r
  ELSE LET cp == CodePoint(r)
           Has(i) == /\ UpperRanges[i][1] <= cp
                     /\ cp <= UpperRanges[i][2]
                     /\ (cp - UpperRanges[i][1]) % UpperRanges[i][3] = 0
       IN IF \E i \in 1..Len(UpperRanges) : Has(i)
            THEN RuneOf(cp + UpperRanges[CHOOSE i \in 1..Len(UpperRanges) : Has(i)][4])
            ELSE r

ToUpper(s) == [i \in 1..Len(s) |-> ToUpperRune(s[i])]

SanitizeKeepsRune(r) ==
  \/ r \in RuneSet(LowerRunes)
  \/ r \in RuneSet(UpperRunes)
  \/ r \in RuneSet(DigitRunes)
  \/ r = "_"

sanitizeColumnUnfiltered(column) == column

\* strings.Map over the runes of the column: keep or drop each one.
sanitizeColumn(column) == SelectSeq(column, SanitizeKeepsRune)

sanitizeTableName(table) == sanitizeColumn(table)

sanitizeColumns(columns) == [i \in 1..Len(columns) |-> sanitizeColumn(columns[i])]

(***************************************************************************)
(* Operator allow-list.                                                    *)
(***************************************************************************)
validOperators ==
  {"=", "<>", ">", "<", ">=", "<=", "LIKE", "NOT LIKE",
   "IN", "NOT IN", "IS NULL", "IS NOT NULL"}

OperatorAllowedAlways(operator) == TRUE

OperatorAllowed(operator) == Str(ToUpper(operator)) \in validOperators

(***************************************************************************)
(* Inputs the callers draw from.                                           *)
(***************************************************************************)
TableNames == { <<"u","s","e","r","s">> }

ColumnNames == { <<"i","d">> }

OperatorInputs == { <<"=">>, <<"l","i","k","e">>, <<"=","=">> }

Values == {1}

Now == 0

CreatedAt == <<"c","r","e","a","t","e","d","_","a","t">>

UpdatedAt == <<"u","p","d","a","t","e","d","_","a","t">>

Email == <<"e","m","a","i","l">>

EmptyFields == [c \in {} |-> 0]

FieldMaps == { EmptyFields, [c \in {CreatedAt} |-> 1], [c \in {Email} |-> 2] }

(***************************************************************************)
(* The builder's Query value and its rendering.                            *)
(***************************************************************************)
RECURSIVE ConcatAll(_)
ConcatAll(parts) == IF parts = <<>> THEN "" ELSE parts[1] \o ConcatAll(Tail(parts))

RECURSIVE FlattenArgs(_)
FlattenArgs(lists) == IF lists = <<>> THEN <<>> ELSE lists[1] \o FlattenArgs(Tail(lists))

Placeholder(i) == "$" \o ToString(i)

\* Orm.Table: the Query a new Model starts with.
NewQuery(tableName) ==
  [ table      |-> tableName,
    selections |-> << tableName \o <<".", "*">> >>,
    wheres     |-> <<>>,
    orWheres   |-> <<>>,
    joins      |-> <<>>,
    limit      |-> 0,
    offset     |-> 0,
    orderBy    |-> "",
    orderDir   |-> "",
    groupBy    |-> <<>>,
    having     |-> <<>> ]

ZeroModel == [ ctx |-> "none", query |-> NewQuery(<<>>) ]

whereClauseAsGiven(column, operator, value) ==
  [ column   |-> column,
    operator |-> operator,
    value    |-> value ]

\* The whereClause value Where and OrWhere append.
whereClause(column, operator, value) ==
  [ column   |-> sanitizeColumn(column),
    operator |-> ToUpper(operator),
    value    |-> value ]

WherePredicateInlined(w, paramIndex) ==
  Str(w.column) \o " " \o Str(w.operator) \o " " \o ToString(w.value)

\* fmt.Sprintf("%s %s $%d", where.column, where.operator, paramIndex)
WherePredicate(w, paramIndex) ==
  Str(w.column) \o " " \o Str(w.operator) \o " " \o Placeholder(paramIndex)

\* The first loop of buildWhereClause: " AND " before every predicate but the first.
WheresText(q, startIndex) ==
  ConcatAll([i \in 1..Len(q.wheres) |->
    (IF i > 1 THEN " AND " ELSE "")
      \o WherePredicate(q.wheres[i], startIndex + i - 1)])

OrWheresTextUnjoined(q, startIndex) ==
  ConcatAll([i \in 1..Len(q.orWheres) |->
    (IF i > 1 THEN " OR " ELSE "")
      \o WherePredicate(q.orWheres[i], startIndex + Len(q.wheres) + i - 1)])

\* The second loop: " OR " when an AND-predicate exists or it is not the first.
OrWheresText(q, startIndex) ==
  ConcatAll([i \in 1..Len(q.orWheres) |->
    (IF Len(q.wheres) > 0 \/ i > 1 THEN " OR " ELSE "")
      \o WherePredicate(q.orWheres[i], startIndex + Len(q.wheres) + i - 1)])

buildWhereClause(q, startIndex) ==
  IF Len(q.wheres) = 0 /\ Len(q.orWheres) = 0
    THEN [text |-> "", values |-> <<>>]
    ELSE [text   |-> " WHERE " \o WheresText(q, startIndex) \o OrWheresText(q, startIndex),
          values |-> [i \in 1..Len(q.wheres) |-> q.wheres[i].value]
                       \o [i \in 1..Len(q.orWheres) |-> q.orWheres[i].value]]

JoinText(join) ==
  IF join.condition # ""
    THEN " " \o join.joinType \o " " \o Str(join.table) \o " ON " \o join.condition
    ELSE " " \o join.joinType \o " " \o Str(join.table)

JoinArgsAlways(join) == join.args

\* values = append(values, join.args...) only for a join with a condition.
JoinArgs(join) == IF join.condition # "" THEN join.args ELSE <<>>

HavingText(q) ==
  IF Len(q.having) > 0
    THEN " HAVING " \o StringsJoin([i \in 1..Len(q.having) |-> q.having[i].condition], " AND ")
    ELSE ""

buildSelectQuery(q) ==
  LET joinValues == FlattenArgs([i \in 1..Len(q.joins) |-> JoinArgs(q.joins[i])])
      where == buildWhereClause(q, Len(joinValues) + 1)
  IN [ text |->
         "SELECT " \o StringsJoin([i \in 1..Len(q.selections) |-> Str(q.selections[i])], ", ")
           \o " FROM " \o Str(q.table)
           \o ConcatAll([i \in 1..Len(q.joins) |-> JoinText(q.joins[i])])
           \o where.text
           \o (IF Len(q.groupBy) > 0
                 THEN " GROUP BY "
                        \o StringsJoin([i \in 1..Len(q.groupBy) |-> Str(q.groupBy[i])], ", ")
                 ELSE "")
           \o HavingText(q)
           \o (IF q.orderBy # "" THEN " ORDER BY " \o q.orderBy \o " " \o q.orderDir ELSE "")
           \o (IF q.limit > 0 THEN " LIMIT " \o ToString(q.limit) ELSE "")
           \o (IF q.offset > 0 THEN " OFFSET " \o ToString(q.offset) ELSE ""),
       values |->
         joinValues \o where.values
           \o FlattenArgs([i \in 1..Len(q.having) |-> q.having[i].args]) ]

\* The orders in which a Go range loop may visit the keys of a map.
RangeOrders(keys) ==
  { o \in [1..Cardinality(keys) -> keys] :
      \A i, j \in 1..Cardinality(keys) : i # j => o[i] # o[j] }

CreateNewDataStamped(data) ==
  [ c \in DOMAIN data \cup {CreatedAt, UpdatedAt} |->
      IF c \in {CreatedAt, UpdatedAt} THEN Now ELSE data[c] ]

\* Create: the copy of the input map with the timestamps added when absent.
CreateNewData(data) ==
  [ c \in DOMAIN data \cup {CreatedAt, UpdatedAt} |->
      IF c \in DOMAIN data THEN data[c] ELSE Now ]

\* Create: the INSERT rendered when the range loop visits newData in this order.
CreateQuery(q, newData, order) ==
  [ text |->
      "INSERT INTO " \o Str(q.table) \o " ("
        \o StringsJoin([i \in 1..Len(order) |-> Str(sanitizeColumn(order[i]))], ", ")
        \o ") VALUES ("
        \o StringsJoin([i \in 1..Len(order) |-> Placeholder(i)], ", ")
        \o ") RETURNING *",
    values |-> [i \in 1..Len(order) |-> newData[order[i]]] ]

UpdateQueryRestarting(q, data, order) ==
  LET where == buildWhereClause(q, 1)
  IN [ text |->
         "UPDATE " \o Str(q.table) \o " SET "
           \o StringsJoin([i \in 1..Len(order) |->
                Str(sanitizeColumn(order[i])) \o " = " \o Placeholder(i)], ", ")
           \o where.text,
       values |-> [i \in 1..Len(order) |-> data[order[i]]] \o where.values ]

\* Update: the UPDATE rendered when the range loop visits data in this order.
UpdateQuery(q, data, order) ==
  LET where == buildWhereClause(q, Len(order) + 1)
  IN [ text |->
         "UPDATE " \o Str(q.table) \o " SET "
           \o StringsJoin([i \in 1..Len(order) |->
                Str(sanitizeColumn(order[i])) \o " = " \o Placeholder(i)], ", ")
           \o where.text,
       values |-> [i \in 1..Len(order) |-> data[order[i]]] \o where.values ]

DeleteQuery(q) ==
  LET where == buildWhereClause(q, 1)
  IN [ text |-> "DELETE FROM " \o Str(q.table) \o where.text,
       values |-> where.values ]

\* len(data) == 0 check at the head of Create and of Update.
FieldsRejectedNever(data) == FALSE

FieldsRejected(data) == DOMAIN data = {}

(***************************************************************************)
(* State.                                                                  *)
(***************************************************************************)
VARIABLES
  mainPc,        \* position of main / App in New, Start, Shutdown
  poolState,     \* *sql.DB: "Uninitialized", "Open", "Closed"
  limitsSet,     \* number of times orm.New configured the pool limits
  prepared,      \* Orm.prepared: SQL text -> statement handle
  stmts,         \* every *sql.Stmt ever compiled: [query, closed]
  muWriter,      \* Orm.mu: holder of the exclusive lock, 0 if none
  muReaders,     \* Orm.mu: holders of the shared lock
  clPc,          \* position of the Cleanup call in progress
  clBy,          \* who called Cleanup: "none", "New", "client"
  clVisited,     \* Cleanup: cache keys the range loop has visited
  clErrs,        \* Cleanup: errs
  clFailed,      \* the cache keys whose stmt.Close() returned an error
  clResult,      \* Cleanup: returned error (list of failures), <<>> is nil
  pc,            \* per caller: position
  m,             \* per caller: the Model (builder)
  call,          \* per caller: the method called last, its input and rendering
  stmt,          \* per caller: handle returned by prepareQuery, 0 if none
  rowsLeft,      \* per caller: rows of the result set not yet read
  results,       \* per caller: rows scanned so far
  ret,           \* per caller: outcome of the operation
  validatorErrors, \* UserHandler.Validator.errors, shared by all requests
  requests       \* per CreateUser request: position, payload, locals, response

vars ==
  <<mainPc, poolState, limitsSet, prepared, stmts, muWriter, muReaders,
    clPc, clBy, clVisited, clErrs, clFailed, clResult,
    pc, m, call, stmt, rowsLeft, results, ret, validatorErrors, requests>>

lifecycleVars == <<mainPc, poolState, limitsSet>>
cacheVars == <<prepared, stmts>>
muVars == <<muWriter, muReaders>>
cleanupVars == <<clPc, clBy, clVisited, clErrs, clFailed, clResult>>
callerVars == <<pc, m, call, stmt, rowsLeft, results, ret>>
handlerVars == <<validatorErrors, requests>>
ormVars == <<lifecycleVars, cacheVars, muVars, cleanupVars, callerVars>>

NoCache == [q \in {} |-> 0]

CleanupHolder == NumCallers + 1

(***************************************************************************)
(* Initial state: the process has started, nothing is constructed yet.    *)
(***************************************************************************)
NoCall ==
  [op |-> "none", input |-> <<>>, text |-> "", args |-> <<>>,
   executed |-> FALSE, rowsErr |-> "none"]

NoRet == [status |-> "none", cause |-> "none", value |-> <<>>]

\* The method called with its input, before anything is rendered.
Called(op, input) == [NoCall EXCEPT !.op = op, !.input = input]

StartCall(op, input, rendered) ==
  [op |-> op, input |-> input, text |-> rendered.text, args |-> rendered.values,
   executed |-> FALSE, rowsErr |-> "none"]

\* A goroutine of the HTTP server that is not handling a request.
NoRequest ==
  [pc |-> "idle", payload |-> "none", rule |-> 0, loaded |-> <<>>, err |-> FALSE,
   response |-> [status |-> 0, errors |-> <<>>]]

Init ==
  /\ mainPc = "initDB"
  /\ poolState = "Uninitialized"
  /\ limitsSet = 0
  /\ prepared = NoCache
  /\ stmts = <<>>
  /\ muWriter = 0
  /\ muReaders = {}
  /\ clPc = "idle"
  /\ clBy = "none"
  /\ clVisited = {}
  /\ clErrs = <<>>
  /\ clFailed = {}
  /\ clResult = <<>>
  /\ pc = [p \in Callers |-> "idle"]
  /\ m = [p \in Callers |-> ZeroModel]
  /\ call = [p \in Callers |-> NoCall]
  /\ stmt = [p \in Callers |-> 0]
  /\ rowsLeft = [p \in Callers |-> 0]
  /\ results = [p \in Callers |-> <<>>]
  /\ ret = [p \in Callers |-> NoRet]
  /\ validatorErrors = <<>>
  /\ requests = [r \in Callers |-> NoRequest]

(***************************************************************************)
(* Lifecycle: container.New, App.Shutdown, Container.Close.                *)
(***************************************************************************)
\* container.New has returned, so the Orm is reachable by callers.
OrmReady == mainPc \in {"serving", "close", "exited"}

\* Container.initDB -> database.NewConnection: sql.Open and Ping.
InitDB ==
  /\ mainPc = "initDB"
  /\ \E ok \in BOOLEAN :
       IF ok
         THEN /\ poolState' = "Open"
              /\ mainPc' = "initORM"
         ELSE /\ poolState' = poolState
              /\ mainPc' = "failed"
  /\ UNCHANGED <<handlerVars, limitsSet, cacheVars, muVars, cleanupVars, callerVars>>

\* Container.initORM -> orm.New: configures the limits, makes the cache.
InitORM ==
  /\ mainPc = "initORM"
  /\ limitsSet' = limitsSet + 1
  /\ prepared' = NoCache
  /\ mainPc' = "deferCleanup"
  /\ UNCHANGED <<handlerVars, poolState, stmts, muVars, cleanupVars, callerVars>>

\* container.New: `defer c.orm.Cleanup()` runs as New returns.
NewDeferredCleanup ==
  /\ mainPc = "deferCleanup"
  /\ clPc = "idle"
  /\ clPc' = "lock"
  /\ clBy' = "New"
  /\ mainPc' = "inCleanup"
  /\ UNCHANGED <<handlerVars, poolState, limitsSet, cacheVars, muVars, clVisited, clErrs, clFailed,
                 clResult, callerVars>>

\* App.Shutdown: server.Shutdown, then Container.Close unless it failed.
Shutdown ==
  /\ mainPc = "serving"
  /\ \E ok \in BOOLEAN : mainPc' = IF ok THEN "close" ELSE "exited"
  /\ UNCHANGED <<handlerVars, poolState, limitsSet, cacheVars, muVars, cleanupVars, callerVars>>

\* Container.Close: c.db.Close().
ContainerClose ==
  /\ mainPc = "close"
  /\ poolState' = "Closed"
  /\ mainPc' = "exited"
  /\ UNCHANGED <<handlerVars, limitsSet, cacheVars, muVars, cleanupVars, callerVars>>

(***************************************************************************)
(* Orm.Cleanup.                                                            *)
(***************************************************************************)
\* A client of the package calls the exported Cleanup.
CleanupCall ==
  /\ OrmReady
  /\ clPc = "idle"
  /\ clPc' = "lock"
  /\ clBy' = "client"
  /\ UNCHANGED <<handlerVars, lifecycleVars, cacheVars, muVars, clVisited, clErrs, clFailed, clResult,
                 callerVars>>

\* db.mu.Lock()
CleanupLock ==
  /\ clPc = "lock"
  /\ muWriter = 0
  /\ muReaders = {}
  /\ muWriter' = CleanupHolder
  /\ clPc' = "range"
  /\ clVisited' = {}
  /\ clErrs' = <<>>
  /\ clFailed' = {}
  /\ UNCHANGED <<handlerVars, lifecycleVars, cacheVars, muReaders, clBy, clResult, callerVars>>

CleanedCacheKept(cache) == cache

\* db.prepared = make(map[string]*sql.Stmt)
CleanedCache(cache) == NoCache

CleanupRangeDoneAtFirstError(visited, errs) == visited = DOMAIN prepared \/ errs # <<>>

\* The range loop over db.prepared ends only when every entry was visited.
CleanupRangeDone(visited, errs) == visited = DOMAIN prepared

\* One iteration of the loop: stmt.Close(), recording the failure if any.
CleanupClose ==
  /\ clPc = "range"
  /\ ~CleanupRangeDone(clVisited, clErrs)
  /\ \E query \in DOMAIN prepared \ clVisited, failed \in BOOLEAN :
       /\ stmts' = [stmts EXCEPT ![prepared[query]].closed = TRUE]
       /\ clErrs' = IF failed THEN Append(clErrs, query) ELSE clErrs
       /\ clFailed' = IF failed THEN clFailed \cup {query} ELSE clFailed
       /\ clVisited' = clVisited \cup {query}
  /\ UNCHANGED <<handlerVars, lifecycleVars, prepared, muVars, clPc, clBy, clResult, callerVars>>

\* db.prepared = make(...); the error aggregates errs, nil when there is none.
CleanupFinish ==
  /\ clPc = "range"
  /\ CleanupRangeDone(clVisited, clErrs)
  /\ prepared' = CleanedCache(prepared)
  /\ clResult' = clErrs
  /\ clPc' = "unlock"
  /\ UNCHANGED <<handlerVars, lifecycleVars, stmts, muVars, clBy, clVisited, clErrs, clFailed, callerVars>>

\* The deferred db.mu.Unlock(); Cleanup returns to its caller.
CleanupUnlock ==
  /\ clPc = "unlock"
  /\ muWriter' = 0
  /\ clPc' = "idle"
  /\ clBy' = "none"
  /\ clVisited' = {}
  /\ clErrs' = <<>>
  /\ clFailed' = {}
  /\ clResult' = <<>>
  /\ mainPc' = IF clBy = "New" THEN "serving" ELSE mainPc
  /\ UNCHANGED <<handlerVars, poolState, limitsSet, cacheVars, muReaders, callerVars>>

(***************************************************************************)
(* Builder methods.                                                        *)
(***************************************************************************)
Fail(status, cause) == [status |-> status, cause |-> cause, value |-> <<>>]

Ok(value) == [status |-> "ok", cause |-> "none", value |-> value]

\* Orm.Table(tableName)
TableCall(p, tableName) ==
  /\ OrmReady
  /\ pc[p] = "idle"
  /\ m' = [m EXCEPT ![p] = [ctx |-> "background", query |-> NewQuery(tableName)]]
  /\ pc' = [pc EXCEPT ![p] = "build"]
  /\ UNCHANGED <<handlerVars, lifecycleVars, cacheVars, muVars, cleanupVars,
                 call, stmt, rowsLeft, results, ret>>

\* Orm.Table with a table name of TableNames.
Table(p) == \E tableName \in TableNames : TableCall(p, tableName)

\* Model.Select(columns...)
SelectCall(p, columns) ==
  /\ pc[p] = "build"
  /\ m' = [m EXCEPT ![p].query.selections = sanitizeColumns(columns)]
  /\ call' = [call EXCEPT ![p] = Called("Select", columns)]
  /\ UNCHANGED <<handlerVars, lifecycleVars, cacheVars, muVars, cleanupVars,
                 pc, stmt, rowsLeft, results, ret>>

\* Model.addJoin: append the join clause to query.joins.
addJoin(q, joinType, table, condition, args) ==
  [q EXCEPT !.joins = Append(@, [ table     |-> table,
                                  joinType  |-> joinType,
                                  condition |-> condition,
                                  args      |-> args ])]

\* The step of Join, LeftJoin, RightJoin and CrossJoin: sanitize the table
\* name and call addJoin.
JoinStep(p, method, joinType, table, condition, args) ==
  /\ Len(m[p].query.joins) < MaxJoins
  /\ m' = [m EXCEPT ![p].query =
            addJoin(@, joinType, sanitizeTableName(table), condition, args)]
  /\ call' = [call EXCEPT ![p] = Called(method, <<table, condition, args>>)]
  /\ UNCHANGED <<handlerVars, lifecycleVars, cacheVars, muVars, cleanupVars,
                 pc, stmt, rowsLeft, results, ret>>

\* Model.Join(table, condition, args...)
JoinCall(p, table, condition, args) ==
  /\ pc[p] = "build"
  /\ JoinStep(p, "Join", "INNER JOIN", table, condition, args)

\* Model.LeftJoin(table, condition, args...)
LeftJoinCall(p, table, condition, args) ==
  /\ pc[p] = "build"
  /\ JoinStep(p, "LeftJoin", "LEFT JOIN", table, condition, args)

\* Model.RightJoin(table, condition, args...)
RightJoinCall(p, table, condition, args) ==
  /\ pc[p] = "build"
  /\ JoinStep(p, "RightJoin", "RIGHT JOIN", table, condition, args)

\* Model.CrossJoin(table): addJoin with the empty condition and the one
\* variadic argument nil.
CrossJoinCall(p, table) ==
  /\ pc[p] = "build"
  /\ JoinStep(p, "CrossJoin", "CROSS JOIN", table, "", <<"nil">>)

\* Model.WithContext, with a context the caller can cancel.
WithContext(p) ==
  /\ pc[p] = "build"
  /\ m[p].ctx = "background"
  /\ m' = [m EXCEPT ![p].ctx = "live"]
  /\ UNCHANGED <<handlerVars, lifecycleVars, cacheVars, muVars, cleanupVars,
                 pc, call, stmt, rowsLeft, results, ret>>

\* The caller cancels the context it attached.
Cancel(p) ==
  /\ pc[p] \notin {"idle", "done"}
  /\ m[p].ctx = "live"
  /\ m' = [m EXCEPT ![p].ctx = "canceled"]
  /\ UNCHANGED <<handlerVars, lifecycleVars, cacheVars, muVars, cleanupVars,
                 pc, call, stmt, rowsLeft, results, ret>>

\* Model.Where: panics with ErrInvalidOperator or appends to query.wheres.
WhereCall(p, column, operator, value) ==
  /\ pc[p] = "build"
  /\ call' = [call EXCEPT ![p] = Called("Where", <<column, operator, value>>)]
  /\ IF ~OperatorAllowed(operator)
       THEN /\ ret' = [ret EXCEPT ![p] = Fail("InvalidOperator", "none")]
            /\ pc' = [pc EXCEPT ![p] = "done"]
            /\ m' = m
       ELSE /\ m' = [m EXCEPT ![p].query.wheres =
                       Append(@, whereClause(column, operator, value))]
            /\ UNCHANGED <<pc, ret>>
  /\ UNCHANGED <<handlerVars, lifecycleVars, cacheVars, muVars, cleanupVars,
                 stmt, rowsLeft, results>>

\* Model.Where with inputs of ColumnNames, OperatorInputs and Values, on a
\* builder that holds fewer than MaxPreds predicates.
Where(p) ==
  /\ Len(m[p].query.wheres) + Len(m[p].query.orWheres) < MaxPreds
  /\ \E column \in ColumnNames, operator \in OperatorInputs, value \in Values :
       WhereCall(p, column, operator, value)

\* Model.OrWhere: panics with ErrInvalidOperator or appends to query.orWheres.
OrWhereCall(p, column, operator, value) ==
  /\ pc[p] = "build"
  /\ call' = [call EXCEPT ![p] = Called("OrWhere", <<column, operator, value>>)]
  /\ IF ~OperatorAllowed(operator)
       THEN /\ ret' = [ret EXCEPT ![p] = Fail("InvalidOperator", "none")]
            /\ pc' = [pc EXCEPT ![p] = "done"]
            /\ m' = m
       ELSE /\ m' = [m EXCEPT ![p].query.orWheres =
                       Append(@, whereClause(column, operator, value))]
            /\ UNCHANGED <<pc, ret>>
  /\ UNCHANGED <<handlerVars, lifecycleVars, cacheVars, muVars, cleanupVars,
                 stmt, rowsLeft, results>>

\* Model.OrWhere with inputs of ColumnNames, OperatorInputs and Values, on a
\* builder that holds fewer than MaxPreds predicates.
OrWhere(p) ==
  /\ Len(m[p].query.wheres) + Len(m[p].query.orWheres) < MaxPreds
  /\ \E column \in ColumnNames, operator \in OperatorInputs, value \in Values :
       OrWhereCall(p, column, operator, value)

(***************************************************************************)
(* Terminal operations up to the call of prepareQuery.                     *)
(***************************************************************************)
\* Model.Get: buildSelectQuery, then prepareQuery.
Get(p) ==
  /\ pc[p] = "build"
  /\ call' = [call EXCEPT ![p] = StartCall("Get", <<>>, buildSelectQuery(m[p].query))]
  /\ pc' = [pc EXCEPT ![p] = "rlock"]
  /\ UNCHANGED <<handlerVars, lifecycleVars, cacheVars, muVars, cleanupVars,
                 m, stmt, rowsLeft, results, ret>>

FirstKeepingLimit(p) ==
  /\ pc[p] = "build"
  /\ call' = [call EXCEPT ![p] = StartCall("First", <<>>, buildSelectQuery(m[p].query))]
  /\ pc' = [pc EXCEPT ![p] = "rlock"]
  /\ UNCHANGED <<handlerVars, lifecycleVars, cacheVars, muVars, cleanupVars,
                 m, stmt, rowsLeft, results, ret>>

\* Model.First: m.query.limit = 1, then Get.
First(p) ==
  /\ pc[p] = "build"
  /\ m' = [m EXCEPT ![p].query.limit = 1]
  /\ call' = [call EXCEPT ![p] = StartCall("First", <<>>, buildSelectQuery(m'[p].query))]
  /\ pc' = [pc EXCEPT ![p] = "rlock"]
  /\ UNCHANGED <<handlerVars, lifecycleVars, cacheVars, muVars, cleanupVars,
                 stmt, rowsLeft, results, ret>>

\* Model.Create: reject an empty map, else render the INSERT.
CreateCall(p, data) ==
  /\ pc[p] = "build"
  /\ IF FieldsRejected(data)
       THEN /\ ret' = [ret EXCEPT ![p] = Fail("InvalidValue", "none")]
            /\ call' = [call EXCEPT ![p] = Called("Create", data)]
            /\ pc' = [pc EXCEPT ![p] = "done"]
       ELSE /\ \E order \in RangeOrders(DOMAIN CreateNewData(data)) :
                 call' = [call EXCEPT ![p] =
                   StartCall("Create", data,
                             CreateQuery(m[p].query, CreateNewData(data), order))]
            /\ pc' = [pc EXCEPT ![p] = "rlock"]
            /\ ret' = ret
  /\ UNCHANGED <<handlerVars, lifecycleVars, cacheVars, muVars, cleanupVars,
                 m, stmt, rowsLeft, results>>

\* Model.Create with a field map of FieldMaps.
Create(p) == \E data \in FieldMaps : CreateCall(p, data)

\* Model.Update: reject an empty map, else render the UPDATE.
UpdateCall(p, data) ==
  /\ pc[p] = "build"
  /\ IF FieldsRejected(data)
       THEN /\ ret' = [ret EXCEPT ![p] = Fail("InvalidValue", "none")]
            /\ call' = [call EXCEPT ![p] = Called("Update", data)]
            /\ pc' = [pc EXCEPT ![p] = "done"]
       ELSE /\ \E order \in RangeOrders(DOMAIN data) :
                 call' = [call EXCEPT ![p] =
                   StartCall("Update", data, UpdateQuery(m[p].query, data, order))]
            /\ pc' = [pc EXCEPT ![p] = "rlock"]
            /\ ret' = ret
  /\ UNCHANGED <<handlerVars, lifecycleVars, cacheVars, muVars, cleanupVars,
                 m, stmt, rowsLeft, results>>

\* Model.Update with a field map of FieldMaps.
Update(p) == \E data \in FieldMaps : UpdateCall(p, data)

\* Model.Delete: render the DELETE.
Delete(p) ==
  /\ pc[p] = "build"
  /\ call' = [call EXCEPT ![p] = StartCall("Delete", <<>>, DeleteQuery(m[p].query))]
  /\ pc' = [pc EXCEPT ![p] = "rlock"]
  /\ UNCHANGED <<handlerVars, lifecycleVars, cacheVars, muVars, cleanupVars,
                 m, stmt, rowsLeft, results, ret>>

(***************************************************************************)
(* Model.prepareQuery.                                                     *)
(***************************************************************************)
PrepareRLockExclusive(p) ==
  /\ pc[p] = "rlock"
  /\ muWriter = 0
  /\ muReaders = {}
  /\ muReaders' = muReaders \cup {p}
  /\ pc' = [pc EXCEPT ![p] = "lookup"]
  /\ UNCHANGED <<handlerVars, lifecycleVars, cacheVars, muWriter, cleanupVars,
                 m, call, stmt, rowsLeft, results, ret>>

\* m.db.mu.RLock()
PrepareRLock(p) ==
  /\ pc[p] = "rlock"
  /\ muWriter = 0
  /\ muReaders' = muReaders \cup {p}
  /\ pc' = [pc EXCEPT ![p] = "lookup"]
  /\ UNCHANGED <<handlerVars, lifecycleVars, cacheVars, muWriter, cleanupVars,
                 m, call, stmt, rowsLeft, results, ret>>

\* stmt, ok := m.db.prepared[query]; RUnlock; return the handle on a hit.
PrepareLookup(p) ==
  /\ pc[p] = "lookup"
  /\ muReaders' = muReaders \ {p}
  /\ IF call[p].text \in DOMAIN prepared
       THEN /\ stmt' = [stmt EXCEPT ![p] = prepared[call[p].text]]
            /\ pc' = [pc EXCEPT ![p] = "exec"]
       ELSE /\ stmt' = stmt
            /\ pc' = [pc EXCEPT ![p] = "lock"]
  /\ UNCHANGED <<handlerVars, lifecycleVars, cacheVars, muWriter, cleanupVars,
                 m, call, rowsLeft, results, ret>>

\* m.db.mu.Lock()
PrepareLock(p) ==
  /\ pc[p] = "lock"
  /\ muWriter = 0
  /\ muReaders = {}
  /\ muWriter' = p
  /\ pc' = [pc EXCEPT ![p] = "locked"]
  /\ UNCHANGED <<handlerVars, lifecycleVars, cacheVars, muReaders, cleanupVars,
                 m, call, stmt, rowsLeft, results, ret>>

CacheInsertDropped(cache, query, h) == cache

\* m.db.prepared[query] = stmt
CacheInsert(cache, query, h) == (query :> h) @@ cache

RecheckSkipped(query) == FALSE

\* The double check after acquiring the write lock.
RecheckHit(query) == query \in DOMAIN prepared

\* What m.db.PrepareContext(m.ctx, query) can answer.
PrepareOutcomes(ctx) ==
  IF poolState # "Open" THEN {"db closed"}
  ELSE IF ctx = "canceled" THEN {"canceled"}
  ELSE {"engine"} \cup (IF Len(stmts) < MaxStmts THEN {"ok"} ELSE {})

PrepareCompileCachingFailure(p) ==
  /\ pc[p] = "locked"
  /\ muWriter' = 0
  /\ IF RecheckHit(call[p].text)
       THEN /\ stmt' = [stmt EXCEPT ![p] = prepared[call[p].text]]
            /\ pc' = [pc EXCEPT ![p] = "exec"]
            /\ UNCHANGED <<cacheVars, ret>>
       ELSE \E outcome \in PrepareOutcomes(m[p].ctx) :
              /\ stmts' = Append(stmts, [query |-> call[p].text, closed |-> outcome # "ok"])
              /\ prepared' = CacheInsert(prepared, call[p].text, Len(stmts) + 1)
              /\ IF outcome = "ok"
                   THEN /\ stmt' = [stmt EXCEPT ![p] = Len(stmts) + 1]
                        /\ pc' = [pc EXCEPT ![p] = "exec"]
                        /\ ret' = ret
                   ELSE /\ ret' = [ret EXCEPT ![p] = Fail("PrepareFailure", outcome)]
                        /\ pc' = [pc EXCEPT ![p] = "done"]
                        /\ stmt' = stmt
  /\ UNCHANGED <<handlerVars, lifecycleVars, muReaders, cleanupVars, m, call, rowsLeft, results>>

\* Under the write lock: re-check, compile and insert if absent, unlock.
PrepareCompile(p) ==
  /\ pc[p] = "locked"
  /\ muWriter' = 0
  /\ IF RecheckHit(call[p].text)
       THEN /\ stmt' = [stmt EXCEPT ![p] = prepared[call[p].text]]
            /\ pc' = [pc EXCEPT ![p] = "exec"]
            /\ UNCHANGED <<cacheVars, ret>>
       ELSE \E outcome \in PrepareOutcomes(m[p].ctx) :
              IF outcome = "ok"
                THEN /\ stmts' = Append(stmts, [query |-> call[p].text, closed |-> FALSE])
                     /\ prepared' = CacheInsert(prepared, call[p].text, Len(stmts) + 1)
                     /\ stmt' = [stmt EXCEPT ![p] = Len(stmts) + 1]
                     /\ pc' = [pc EXCEPT ![p] = "exec"]
                     /\ ret' = ret
                ELSE /\ ret' = [ret EXCEPT ![p] = Fail("PrepareFailure", outcome)]
                     /\ pc' = [pc EXCEPT ![p] = "done"]
                     /\ UNCHANGED <<cacheVars, stmt>>
  /\ UNCHANGED <<handlerVars, lifecycleVars, muReaders, cleanupVars, m, call, rowsLeft, results>>

(***************************************************************************)
(* Execution and row scanning.                                             *)
(***************************************************************************)
ExecOutcomesIgnoringPool(h, ctx) ==
  IF stmts[h].closed THEN {"stmt closed"}
  ELSE IF ctx = "canceled" THEN {"canceled"}
  ELSE {"ok", "engine"}

\* What stmt.QueryContext / stmt.ExecContext can answer for handle h.
ExecOutcomes(h, ctx) ==
  IF stmts[h].closed THEN {"stmt closed"}
  ELSE IF poolState # "Open" THEN {"db closed"}
  ELSE IF ctx = "canceled" THEN {"canceled"}
  ELSE {"ok", "engine"}

IsRead(op) == op \in {"Get", "First", "Create"}

\* How many rows the engine can return or affect for the statement: only the
\* SELECT of Get and First carries the LIMIT of the builder.
RowCounts(op, q) ==
  IF op = "Create" THEN {1}
  ELSE IF op \in {"Get", "First"} /\ q.limit > 0 THEN {n \in 0..MaxRows : n <= q.limit}
  ELSE 0..MaxRows

\* stmt.QueryContext(m.ctx, args...) or stmt.ExecContext(m.ctx, args...)
Exec(p) ==
  /\ pc[p] = "exec"
  /\ \E outcome \in ExecOutcomes(stmt[p], m[p].ctx) :
       IF outcome # "ok"
         THEN /\ ret' = [ret EXCEPT ![p] = Fail("ExecutionFailure", outcome)]
              /\ pc' = [pc EXCEPT ![p] = "done"]
              /\ UNCHANGED <<call, rowsLeft>>
         ELSE \E n \in RowCounts(call[p].op, m[p].query) :
                /\ call' = [call EXCEPT ![p].executed = TRUE]
                /\ IF IsRead(call[p].op)
                     THEN /\ rowsLeft' = [rowsLeft EXCEPT ![p] = n]
                          /\ pc' = [pc EXCEPT ![p] = "columns"]
                          /\ ret' = ret
                     ELSE /\ ret' = [ret EXCEPT ![p] = Ok(n)]
                          /\ pc' = [pc EXCEPT ![p] = "done"]
                          /\ rowsLeft' = rowsLeft
  /\ UNCHANGED <<handlerVars, lifecycleVars, cacheVars, muVars, cleanupVars, m, stmt, results>>

FirstResultNeverEmpty(rows) == Ok(rows)

\* First: ErrNoRows on an empty result, else the head of it.
FirstResult(rows) ==
  IF Len(rows) = 0 THEN Fail("NoRows", "none") ELSE Ok(<<rows[1]>>)

\* What the operation returns once scanRows returned (rows, nil).
ReadResult(op, rows) ==
  IF op = "Get" THEN Ok(rows)
  ELSE IF op = "First" THEN FirstResult(rows)
  ELSE IF Len(rows) = 0 THEN Fail("NoData", "none") ELSE Ok(<<rows[1]>>)

\* Why rows.Next() can return false: end of the result set, the rows closed
\* by the canceled context, or an error of the engine while iterating.
NextEnds(left, ctx) ==
  (IF left = 0 THEN {"none"} ELSE {"engine"})
    \cup (IF ctx = "canceled" THEN {"canceled"} ELSE {})

\* scanRows: rows.Columns(), which fails on Rows that database/sql has
\* already closed because the context was canceled; the close runs on another
\* goroutine, so on a canceled context Columns may still succeed.
ScanColumns(p) ==
  /\ pc[p] = "columns"
  /\ \E closed \in {FALSE, m[p].ctx = "canceled"} :
       IF closed
         THEN /\ ret' = [ret EXCEPT ![p] = Fail("ScanFailure", "canceled")]
              /\ pc' = [pc EXCEPT ![p] = "done"]
         ELSE /\ pc' = [pc EXCEPT ![p] = "scan"]
              /\ ret' = ret
  /\ UNCHANGED <<handlerVars, lifecycleVars, cacheVars, muVars, cleanupVars,
                 m, call, stmt, rowsLeft, results>>

\* scanRows: rows.Next() returned true; rows.Scan, then append the row.
ScanRow(p) ==
  /\ pc[p] = "scan"
  /\ rowsLeft[p] > 0
  /\ \E scanned \in BOOLEAN :
       IF scanned
         THEN /\ results' = [results EXCEPT ![p] = Append(@, Len(@) + 1)]
              /\ rowsLeft' = [rowsLeft EXCEPT ![p] = @ - 1]
              /\ UNCHANGED <<pc, ret>>
         ELSE /\ ret' = [ret EXCEPT ![p] =
                   Fail("ScanFailure",
                        IF m[p].ctx = "canceled" THEN "canceled" ELSE "engine")]
              /\ pc' = [pc EXCEPT ![p] = "done"]
              /\ UNCHANGED <<results, rowsLeft>>
  /\ UNCHANGED <<handlerVars, lifecycleVars, cacheVars, muVars, cleanupVars, m, call, stmt>>

\* scanRows: rows.Next() returned false; return results, nil.
ScanEnd(p) ==
  /\ pc[p] = "scan"
  /\ \E why \in NextEnds(rowsLeft[p], m[p].ctx) :
       call' = [call EXCEPT ![p].rowsErr = why]
  /\ ret' = [ret EXCEPT ![p] = ReadResult(call[p].op, results[p])]
  /\ pc' = [pc EXCEPT ![p] = "done"]
  /\ UNCHANGED <<handlerVars, lifecycleVars, cacheVars, muVars, cleanupVars,
                 m, stmt, rowsLeft, results>>

\* The operation has returned; the caller drops the builder.
Return(p) ==
  /\ pc[p] = "done"
  /\ pc' = [pc EXCEPT ![p] = "idle"]
  /\ m' = [m EXCEPT ![p] = ZeroModel]
  /\ call' = [call EXCEPT ![p] = NoCall]
  /\ stmt' = [stmt EXCEPT ![p] = 0]
  /\ rowsLeft' = [rowsLeft EXCEPT ![p] = 0]
  /\ results' = [results EXCEPT ![p] = <<>>]
  /\ ret' = [ret EXCEPT ![p] = NoRet]
  /\ UNCHANGED <<handlerVars, lifecycleVars, cacheVars, muVars, cleanupVars>>

(***************************************************************************)
(* Specification.                                                          *)
(***************************************************************************)
\* prepareQuery, execution, scanning and return of the operation in progress.
Run(p) ==
  \/ PrepareRLock(p)
  \/ PrepareLookup(p)
  \/ PrepareLock(p)
  \/ PrepareCompile(p)
  \/ Exec(p)
  \/ ScanColumns(p)
  \/ ScanRow(p)
  \/ ScanEnd(p)
  \/ Return(p)

\* container.New up to its return.
Startup ==
  \/ InitDB
  \/ InitORM
  \/ NewDeferredCleanup
  \/ CleanupLock
  \/ CleanupFinish
  \/ CleanupUnlock

\* One caller issuing reads and deletes, with or without a cancelable context,
\* while a client may call Cleanup and the application may shut down.
Next ==
  \/ Startup
  \/ Shutdown
  \/ ContainerClose
  \/ CleanupCall
  \/ CleanupClose
  \/ Table(1)
  \/ WithContext(1)
  \/ Cancel(1)
  \/ Get(1)
  \/ First(1)
  \/ Delete(1)
  \/ Run(1)

Spec == Init /\ [][Next]_vars

\* Every caller issues Delete on the same table, so that all of them request
\* the same SQL text from prepareQuery, while a client may call Cleanup.
NextCache ==
  \/ Startup
  \/ CleanupCall
  \/ CleanupClose
  \/ \E p \in Callers :
       \/ Table(p)
       \/ Delete(p)
       \/ PrepareRLock(p)
       \/ PrepareLookup(p)
       \/ PrepareLock(p)
       \/ PrepareCompile(p)
       \/ Exec(p)
       \/ Return(p)

SpecCache == Init /\ [][NextCache]_vars

\* One caller issuing Create and Update with the field maps of FieldMaps.
NextFields ==
  \/ Startup
  \/ Table(1)
  \/ Create(1)
  \/ Update(1)
  \/ Run(1)

SpecFields == Init /\ [][NextFields]_vars

\* One caller adding predicates with Where and OrWhere before Get or Delete.
NextBuilder ==
  \/ Startup
  \/ Table(1)
  \/ Where(1)
  \/ OrWhere(1)
  \/ Get(1)
  \/ Delete(1)
  \/ Run(1)

SpecBuilder == Init /\ [][NextBuilder]_vars

(***************************************************************************)
(* Properties of the statement cache, Cleanup and the pool lifecycle.      *)
(***************************************************************************)
Handles == 1..Len(stmts)

Live(h) == ~stmts[h].closed

InFlight(p) ==
  pc[p] \in {"rlock", "lookup", "lock", "locked", "exec", "columns", "scan"}

\* C1: under any interleaving of prepareQuery callers (and of Cleanup), at most
\* one live compiled statement handle exists per distinct SQL text.
C1_OneLiveHandlePerText ==
  \A h1, h2 \in Handles :
    (stmts[h1].query = stmts[h2].query /\ Live(h1) /\ Live(h2)) => h1 = h2

\* A caller that missed on the shared-lock read holds the write lock while
\* the text has meanwhile been compiled and inserted by a racing caller.
C1_Witness ==
  \E p, r \in Callers :
    /\ p # r
    /\ pc[p] = "locked"
    /\ call[p].text \in DOMAIN prepared
    /\ Live(prepared[call[p].text])
    /\ stmt[r] = prepared[call[p].text]

\* C2: as long as no handle of a text was closed by Cleanup and the engine did
\* not refuse to compile it, the text was compiled exactly once however many
\* callers requested it, and every caller that prepareQuery returned to holds
\* that one handle, which is the cached one.
C2_CompiledOnceSharedByAll ==
  \A q \in {call[p].text : p \in Callers} :
    (q # "" /\ \A h \in Handles : stmts[h].query = q => Live(h))
      => /\ Cardinality({h \in Handles : stmts[h].query = q}) <= 1
         /\ \A p \in Callers :
              (call[p].text = q /\ pc[p] \in {"exec", "columns", "scan"})
                => /\ q \in DOMAIN prepared
                   /\ stmt[p] = prepared[q]
                   /\ Cardinality({h \in Handles : stmts[h].query = q}) = 1

\* Every caller requested the same text and holds the same single handle.
C2_Witness ==
  /\ Len(stmts) = 1
  /\ Live(1)
  /\ \A p \in Callers : pc[p] = "exec" /\ stmt[p] = 1

\* C3 as claimed: no terminal operation executes a statement handle that
\* Cleanup has already closed (the engine never answers "statement is closed").
C3_NeverExecutesClosedHandle ==
  \A p \in Callers : ret[p].cause # "stmt closed"

\* C3 as amended: prepareQuery never returns a closed handle, and a handle a
\* caller holds becomes closed only by a step of a Cleanup that runs while the
\* caller's operation is in flight.
C3_ClosedOnlyByConcurrentCleanup ==
  [][ \A p \in Callers :
        (stmt'[p] # 0 /\ stmts'[stmt'[p]].closed)
          => /\ stmt[p] = stmt'[p]
             /\ stmts[stmt[p]].closed \/ clPc = "range" ]_vars

\* A caller is about to execute a handle that Cleanup closed under it.
C3_Witness ==
  \E p \in Callers : pc[p] = "exec" /\ stmts[stmt[p]].closed

\* C4: the pool is never closed while statements of the cache are unreleased.
C4_PoolClosedOnlyAfterRelease ==
  poolState = "Closed" => \A q \in DOMAIN prepared : stmts[prepared[q]].closed

\* C5: when Cleanup has finished its work (before its deferred unlock) every
\* statement ever cached is closed, the cache is empty, and the returned error
\* lists exactly the statements whose Close failed, once each; it is nil
\* exactly when none failed.
C5_CleanupClosesAllReportsAll ==
  clPc = "unlock"
    => /\ prepared = NoCache
       /\ \A h \in Handles : stmts[h].closed
       /\ {clResult[i] : i \in 1..Len(clResult)} = clFailed
       /\ Len(clResult) = Cardinality(clFailed)
       /\ (clResult = <<>>) <=> (clFailed = {})

\* Cleanup went on after a failed Close and closed a second statement.
C5_Witness ==
  /\ clPc = "unlock"
  /\ Cardinality(clVisited) = 2
  /\ Cardinality(clFailed) >= 1
  /\ \A h \in Handles : stmts[h].closed

\* One step of the pool lifecycle as the claim C6 allows it.
C6_LifecycleStep ==
  /\ poolState' # poolState
       => \/ poolState = "Uninitialized" /\ poolState' = "Open"
          \/ poolState = "Open" /\ poolState' = "Closed"
  /\ limitsSet' <= 1
  /\ (poolState' # "Uninitialized" /\ mainPc' # "initORM") => limitsSet' = 1
  /\ poolState = "Closed"
       => /\ Len(stmts') = Len(stmts)
          /\ \A p \in Callers :
               (pc[p] \in {"locked", "exec"} /\ pc'[p] # pc[p])
                 => \/ pc'[p] = "done" /\ ret'[p].status # "ok"
                    \/ pc[p] = "locked" /\ pc'[p] = "exec"

\* C6: the pool moves only Uninitialized -> Open -> Closed, the limits are
\* configured exactly once, and once the pool is closed no statement is
\* compiled and no operation that reaches compilation or execution succeeds,
\* also when its text is in the cache.
C6_PoolLifecycle == [][C6_LifecycleStep]_vars

\* An operation whose text was cached fails on the closed pool.
C6_Witness ==
  \E p \in Callers :
    /\ poolState = "Closed"
    /\ pc[p] = "done"
    /\ ret[p].status = "ExecutionFailure"
    /\ ret[p].cause = "db closed"
    /\ call[p].text \in DOMAIN prepared

(***************************************************************************)
(* Properties of single operations.                                        *)
(***************************************************************************)
IsPredicateCall(c) == c.op \in {"Where", "OrWhere"}

\* The step of a Where or OrWhere whose operator, upper-cased, is not in the
\* allow-list.
C7_InvalidOperatorStep ==
  \A p \in Callers :
    ( /\ pc[p] = "build"
      /\ IsPredicateCall(call'[p])
      /\ Str(ToUpper(call'[p].input[2])) \notin validOperators )
    => /\ pc'[p] = "done"
       /\ ret'[p] = Fail("InvalidOperator", "none")
       /\ m'[p] = m[p]
       /\ call'[p].text = ""
       /\ stmt'[p] = 0
       /\ ~call'[p].executed
       /\ UNCHANGED <<prepared, stmts>>

\* C7: a Where or OrWhere whose operator is not in the allow-list fails at
\* once with InvalidOperator: the builder keeps its predicates, no SQL is
\* rendered, and nothing is compiled or executed.
C7_InvalidOperatorFailsFast == [][C7_InvalidOperatorStep]_vars

\* OrWhere was called with an operator outside the allow-list, after a
\* statement had been cached by an earlier operation.
C7_Witness ==
  \E p \in Callers :
    /\ pc[p] = "done"
    /\ call[p].op = "OrWhere"
    /\ call[p].input[2] = <<"=", "=">>
    /\ ret[p].status = "InvalidOperator"
    /\ prepared # NoCache

\* The step of a Create or Update called with an empty field map.
C8_EmptyFieldsStep ==
  \A p \in Callers :
    ( /\ pc[p] = "build"
      /\ call'[p].op \in {"Create", "Update"}
      /\ DOMAIN call'[p].input = {} )
    => /\ pc'[p] = "done"
       /\ ret'[p] = Fail("InvalidValue", "none")
       /\ call'[p].text = ""
       /\ stmt'[p] = 0
       /\ ~call'[p].executed
       /\ UNCHANGED <<prepared, stmts>>

\* C8: Create and Update called with an empty field map fail with
\* InvalidValue and neither render, compile nor execute anything: the cache
\* and the statements are unchanged.
C8_EmptyFieldsRejected == [][C8_EmptyFieldsStep]_vars

\* Update was called with the empty map while the cache held statements.
C8_Witness ==
  \E p \in Callers :
    /\ pc[p] = "done"
    /\ call[p].op = "Update"
    /\ DOMAIN call[p].input = {}
    /\ ret[p].status = "InvalidValue"
    /\ prepared # NoCache

\* The operation was executed, the engine returned no row, and the scan ran
\* to the end of the (empty) result set.
MatchedNoRows(p) ==
  /\ pc[p] = "done"
  /\ call[p].executed
  /\ call[p].rowsErr = "none"
  /\ ret[p].status # "ScanFailure"
  /\ results[p] = <<>>
  /\ rowsLeft[p] = 0

\* C9: on a query that matches zero rows First fails with NoRows while Get
\* succeeds with the empty sequence.
C9_FirstNotFoundGetEmpty ==
  \A p \in Callers :
    MatchedNoRows(p)
      => /\ call[p].op = "First" => ret[p] = Fail("NoRows", "none")
         /\ call[p].op = "Get" => ret[p] = Ok(<<>>)

\* First ran a query with a predicate-free SELECT that matched no row.
C9_Witness ==
  \E p \in Callers :
    /\ MatchedNoRows(p)
    /\ call[p].op = "First"
    /\ ret[p].status = "NoRows"

\* The step that completes an operation whose context is already canceled,
\* with the pool open and the handle live so that no other failure takes
\* precedence over the cancellation.
C10_CanceledStep ==
  \A p \in Callers :
    ( /\ m[p].ctx = "canceled"
      /\ InFlight(p)
      /\ pc'[p] = "done"
      /\ poolState = "Open"
      /\ stmt[p] # 0 => Live(stmt[p]) )
    => /\ ret'[p].status # "ok"
       /\ ret'[p].cause = "canceled"

\* C10: an operation whose context was canceled before it completed (during
\* compile, during execution or while rows are read) fails with Canceled and
\* never returns success.
C10_CanceledNeverSucceeds == [][C10_CanceledStep]_vars

\* C11: a read operation returns success only when row iteration reached the
\* end of the result set; when rows.Next() stopped on an error of the storage
\* engine the operation fails and never returns the rows scanned so far.
C11_SuccessOnlyAfterFullScan ==
  \A p \in Callers :
    (pc[p] = "done" /\ IsRead(call[p].op) /\ call[p].rowsErr = "engine")
      => ret[p].status # "ok"

(***************************************************************************)
(* Identifiers in the rendered SQL.                                        *)
(***************************************************************************)
\* Identifiers with characters the sanitizer drops.
IdentTables == { <<"u","s","e","r","s">>, <<"u",";","x">> }

IdentColumns == { <<"i","d">>, <<"i","d","-","-">> }

IdentSelections == { << <<"i","d">> >>, << <<"n","a","m","e","'">>, <<"i","d">> >> }

IdentJoinTables == { <<"o","r","d","e","r","s",")">> }

IdentOperators ==
  OperatorInputs \cup { <<"N","o","t"," ","I","n">>, <<"l","U+0131","k","e">>,
                        <<"U+0131","n">> }

IdentFieldMaps == { EmptyFields, [c \in {<<"e","-","m","a","i","l">>} |-> 2] }

\* Where and OrWhere with these identifiers, on a builder that holds fewer
\* than MaxPreds predicates.
IdentWhere ==
  /\ Len(m[1].query.wheres) + Len(m[1].query.orWheres) < MaxPreds
  /\ \E column \in IdentColumns, operator \in IdentOperators, value \in Values :
       WhereCall(1, column, operator, value)

IdentOrWhere ==
  /\ Len(m[1].query.wheres) + Len(m[1].query.orWheres) < MaxPreds
  /\ \E column \in IdentColumns, operator \in IdentOperators, value \in Values :
       OrWhereCall(1, column, operator, value)

\* One caller building with these identifiers and rendering with every
\* terminal operation, up to the call of prepareQuery.
NextIdent ==
  \/ Startup
  \/ \E tableName \in IdentTables : TableCall(1, tableName)
  \/ \E columns \in IdentSelections : SelectCall(1, columns)
  \/ \E table \in IdentJoinTables : LeftJoinCall(1, table, "orders.uid = users.id", <<>>)
  \/ \E table \in IdentJoinTables : RightJoinCall(1, table, "orders.uid = users.id", <<>>)
  \/ IdentWhere
  \/ IdentOrWhere
  \/ Get(1)
  \/ First(1)
  \/ Delete(1)
  \/ \E data \in IdentFieldMaps : CreateCall(1, data)
  \/ \E data \in IdentFieldMaps : UpdateCall(1, data)
  \/ Return(1)

SpecIdent == Init /\ [][NextIdent]_vars

\* The orders in which a terminal operation can range over its field map.
OrdersOf(op, input) ==
  IF op = "Create" THEN RangeOrders(DOMAIN CreateNewData(input))
  ELSE IF op = "Update" THEN RangeOrders(DOMAIN input)
  ELSE { <<>> }

\* What a terminal operation renders for a builder and its input when the
\* field map is ranged over in the given order.
RenderedBy(op, q, input, order) ==
  IF op \in {"Get", "First"} THEN buildSelectQuery(q)
  ELSE IF op = "Delete" THEN DeleteQuery(q)
  ELSE IF op = "Create" THEN CreateQuery(q, CreateNewData(input), order)
  ELSE UpdateQuery(q, input, order)

\* The texts and argument lists a terminal operation can render.
Renderings(op, q, input) ==
  { RenderedBy(op, q, input, order) : order \in OrdersOf(op, input) }

\* A caller whose terminal operation has rendered its statement.
Rendered(p) == call[p].text # ""

\* The builder with every table and column name passed through the sanitizer;
\* the default selection <table>.* keeps its suffix.
SanitizedQuery(q) ==
  [q EXCEPT
     !.table = sanitizeTableName(@),
     !.selections =
        [i \in 1..Len(@) |->
           IF @[i] = q.table \o <<".", "*">>
             THEN sanitizeTableName(q.table) \o <<".", "*">>
             ELSE sanitizeColumn(@[i])],
     !.wheres = [i \in 1..Len(@) |-> [@[i] EXCEPT !.column = sanitizeColumn(@)]],
     !.orWheres = [i \in 1..Len(@) |-> [@[i] EXCEPT !.column = sanitizeColumn(@)]],
     !.joins = [i \in 1..Len(@) |-> [@[i] EXCEPT !.table = sanitizeTableName(@)]]]

\* C12: every table and column name in the SQL text a terminal operation
\* renders has passed through the sanitizer: the text is the one rendered
\* from the builder whose identifiers are all sanitized, the table given to
\* Table and its default selection included.
C12_RenderedIdentifiersSanitized ==
  \A p \in Callers :
    Rendered(p)
      => call[p].text \in
           { r.text : r \in Renderings(call[p].op, SanitizedQuery(m[p].query),
                                       call[p].input) }

(***************************************************************************)
(* Bound values and positional parameters.                                 *)
(***************************************************************************)
ParamValues == {1, 2}

ParamOperators == { <<"=">> }

Name == <<"n","a","m","e">>

ParamCreateMaps == { [c \in {Email} |-> v] : v \in ParamValues }

ParamUpdateMaps == ParamCreateMaps \cup { (Email :> 1) @@ (Name :> 2) }

ParamWhere ==
  /\ Len(m[1].query.wheres) + Len(m[1].query.orWheres) < MaxRenderPreds
  /\ \E column \in ColumnNames, operator \in ParamOperators, value \in ParamValues :
       WhereCall(1, column, operator, value)

ParamOrWhere ==
  /\ Len(m[1].query.wheres) + Len(m[1].query.orWheres) < MaxRenderPreds
  /\ \E column \in ColumnNames, operator \in ParamOperators, value \in ParamValues :
       OrWhereCall(1, column, operator, value)

\* One caller binding values in joins, predicates and field maps and rendering
\* with every terminal operation, up to the call of prepareQuery.
NextParams ==
  \/ Startup
  \/ Table(1)
  \/ \E value \in ParamValues :
       JoinCall(1, <<"o","r","d","e","r","s">>,
                "orders.uid = users.id AND orders.kind = $1", <<value>>)
  \/ CrossJoinCall(1, <<"t","a","g","s">>)
  \/ ParamWhere
  \/ ParamOrWhere
  \/ Get(1)
  \/ First(1)
  \/ Delete(1)
  \/ \E data \in ParamCreateMaps : CreateCall(1, data)
  \/ \E data \in ParamUpdateMaps : UpdateCall(1, data)

SpecParams == Init /\ [][NextParams]_vars

\* The builder with every bound value replaced by the same value.
EraseValues(q) ==
  [q EXCEPT
     !.wheres = [i \in 1..Len(@) |-> [@[i] EXCEPT !.value = 0]],
     !.orWheres = [i \in 1..Len(@) |-> [@[i] EXCEPT !.value = 0]],
     !.joins = [i \in 1..Len(@) |-> [@[i] EXCEPT !.args = [j \in 1..Len(@) |-> 0]]]]

\* The field map with every field value replaced by the same value.
EraseFields(input) == [c \in DOMAIN input |-> 0]

\* C13: bound values never influence the SQL text: whatever the values given
\* to Where/OrWhere (and to joins) and the field values given to Create/Update,
\* the text rendered is the text rendered with all of them replaced by one
\* value, so builders that differ only in values render the same text; the
\* values are in the argument list.
C13_ValuesNeverInText ==
  \A p \in Callers :
    Rendered(p)
      => /\ \A order \in OrdersOf(call[p].op, call[p].input) :
              RenderedBy(call[p].op, m[p].query, call[p].input, order).text
                = RenderedBy(call[p].op, EraseValues(m[p].query),
                             EraseFields(call[p].input), order).text
         /\ \E r \in Renderings(call[p].op, m[p].query, call[p].input) :
              call[p].text = r.text /\ call[p].args = r.values

\* Update has rendered a statement whose field value is 2 and whose one
\* predicate binds the value 1.
C13_Witness ==
  /\ Rendered(1)
  /\ call[1].op = "Update"
  /\ Len(m[1].query.wheres) = 1
  /\ call[1].args = <<2, 1>>

(***************************************************************************)
(* Repeated rendering of one configuration.                                *)
(***************************************************************************)
RepeatMaps == { (Email :> 1) @@ (Name :> 2) }

\* Every caller builds on the same table and renders with Get, Delete, Create
\* or Update, the latter two with the same two-field map.
NextRepeat ==
  \/ Startup
  \/ \E p \in Callers :
       \/ Table(p)
       \/ Get(p)
       \/ Delete(p)
       \/ \E data \in RepeatMaps : CreateCall(p, data)
       \/ \E data \in RepeatMaps : UpdateCall(p, data)

SpecRepeat == Init /\ [][NextRepeat]_vars

\* C14: rendering is deterministic: two calls of the same terminal operation
\* on the same builder configuration, with the same field map for Create and
\* Update, render the same SQL text and the same argument order.
C14_RenderingDeterministic ==
  \A p, r \in Callers :
    ( /\ Rendered(p)
      /\ Rendered(r)
      /\ call[p].op = call[r].op
      /\ call[p].input = call[r].input
      /\ m[p].query = m[r].query )
    => /\ call[p].text = call[r].text
       /\ call[p].args = call[r].args

(***************************************************************************)
(* Reading rendered SQL text.                                              *)
(***************************************************************************)
CharAt(text, i) == SubSeq(text, i, i)

IsDigit(c) == c \in RuneSet(DigitRunes)

DigitValue(c) == (CHOOSE i \in 1..Len(DigitRunes) : DigitRunes[i] = c) - 1

\* The decimal number that starts at position i of the text.
RECURSIVE NumberAt(_, _, _)
NumberAt(text, i, acc) ==
  IF i <= Len(text) /\ IsDigit(CharAt(text, i))
    THEN NumberAt(text, i + 1, acc * 10 + DigitValue(CharAt(text, i)))
    ELSE acc

\* The positions of the text at which sub starts.
Occurrences(text, sub) ==
  { i \in 1..(Len(text) - Len(sub) + 1) : SubSeq(text, i, i + Len(sub) - 1) = sub }

\* The numbers of the placeholders $n of the text, in the order in which they
\* occur.
Placeholders(text) ==
  LET at == Occurrences(text, "$")
  IN [k \in 1..Cardinality(at) |->
        NumberAt(text, (CHOOSE i \in at : Cardinality({j \in at : j <= i}) = k) + 1, 0)]

\* The first position at which sub starts in the text, 0 if none.
FindFirst(text, sub) ==
  IF Occurrences(text, sub) = {} THEN 0
  ELSE CHOOSE i \in Occurrences(text, sub) : \A j \in Occurrences(text, sub) : i <= j

\* The text before its WHERE clause, and the WHERE clause ("" if it has none).
BeforeWhere(text) ==
  IF FindFirst(text, " WHERE ") = 0 THEN text
  ELSE SubSeq(text, 1, FindFirst(text, " WHERE ") - 1)

WhereClauseOf(text) ==
  IF FindFirst(text, " WHERE ") = 0 THEN ""
  ELSE SubSeq(text, FindFirst(text, " WHERE "), Len(text))

\* The sequence a, a+1, ..., a+n-1.
Counting(a, n) == [i \in 1..n |-> a + i - 1]

\* The predicates of a builder in emission order: AND-group, then OR-group.
Predicates(q) == q.wheres \o q.orWheres

\* C15: Update with k fields numbers the SET clause $1..$k and continues the
\* WHERE clause at $k+1 without gap or repeat; the arguments are the k SET
\* values in SET order followed by the predicate values in emission order, so
\* that argument n is the one bound to $n. One field email with Where id = 1
\* renders UPDATE users SET email = $1 WHERE id = $2.
C15_UpdateNumbering ==
  \A p \in Callers :
    (Rendered(p) /\ call[p].op = "Update")
      => LET k == Cardinality(DOMAIN call[p].input)
             preds == Predicates(m[p].query)
             text == call[p].text
             args == call[p].args
         IN /\ Placeholders(BeforeWhere(text)) = Counting(1, k)
            /\ Placeholders(WhereClauseOf(text)) = Counting(k + 1, Len(preds))
            /\ Len(args) = k + Len(preds)
            /\ \E order \in RangeOrders(DOMAIN call[p].input) :
                 /\ BeforeWhere(text) =
                      "UPDATE " \o Str(m[p].query.table) \o " SET "
                        \o StringsJoin([i \in 1..k |->
                             Str(sanitizeColumn(order[i])) \o " = $" \o ToString(i)], ", ")
                 /\ \A i \in 1..k : args[i] = call[p].input[order[i]]
            /\ \A j \in 1..Len(preds) : args[k + j] = preds[j].value
            /\ ( /\ call[p].input = [c \in {Email} |-> 2]
                 /\ m[p].query.wheres = <<whereClause(<<"i","d">>, <<"=">>, 1)>>
                 /\ m[p].query.orWheres = <<>> )
               => /\ text = "UPDATE users SET email = $1 WHERE id = $2"
                  /\ args = <<2, 1>>

\* Update with two fields has rendered a statement with an AND- and an
\* OR-predicate, numbered $3 and $4.
C15_Witness ==
  /\ Rendered(1)
  /\ call[1].op = "Update"
  /\ Cardinality(DOMAIN call[1].input) = 2
  /\ Len(m[1].query.wheres) = 1
  /\ Len(m[1].query.orWheres) = 1
  /\ Placeholders(call[1].text) = <<1, 2, 3, 4>>

(***************************************************************************)
(* The sanitizer.                                                          *)
(***************************************************************************)
\* Runes the sanitizer keeps and runes it drops.
IdentAlphabet == {"a", "Z", "0", "_", "-", ";"}

\* Every identifier of at most MaxIdentLen runes over the alphabet.
Identifiers == UNION { [1..n -> IdentAlphabet] : n \in 0..MaxIdentLen }

\* One caller passing each identifier to Select, which sanitizes it, and
\* rendering the SELECT.
NextSanitize ==
  \/ Startup
  \/ Table(1)
  \/ \E column \in Identifiers : SelectCall(1, <<column>>)
  \/ Get(1)

SpecSanitize == Init /\ [][NextSanitize]_vars

IdentifierRunes ==
  RuneSet(LowerRunes) \cup RuneSet(UpperRunes) \cup RuneSet(DigitRunes) \cup {"_"}

RECURSIVE IsSubsequence(_, _)
IsSubsequence(a, b) ==
  IF a = <<>> THEN TRUE
  ELSE IF b = <<>> THEN FALSE
  ELSE IF a[1] = b[1] THEN IsSubsequence(Tail(a), Tail(b))
  ELSE IsSubsequence(a, Tail(b))

\* C16: for every identifier s, sanitize(s) contains only [A-Za-z0-9_] and is
\* a subsequence of s that keeps every allowed character of s: the allowed
\* characters stay in their order and all others are dropped.
C16_SanitizeSubsequence ==
  \A p \in Callers :
    call[p].op = "Select"
      => \A i \in 1..Len(call[p].input) :
           LET s == call[p].input[i]
               out == m[p].query.selections[i]
           IN /\ \A j \in 1..Len(out) : out[j] \in IdentifierRunes
              /\ IsSubsequence(out, s)
              /\ Len(out) = Cardinality({j \in 1..Len(s) : s[j] \in IdentifierRunes})

\* Select sanitized an identifier with a dropped character between two kept
\* ones.
C16_Witness ==
  /\ call[1].op = "Select"
  /\ call[1].input = << <<"a", ";", "_">> >>
  /\ m[1].query.selections = << <<"a", "_">> >>

(***************************************************************************)
(* Create.                                                                 *)
(***************************************************************************)
\* C17: Create with a non-empty field map inserts exactly the caller's fields
\* plus created_at and updated_at, each once: a field the caller supplied,
\* created_at and updated_at included, is bound to the caller's value and an
\* absent timestamp to the current time; the caller's map (kept in call.input)
\* gains no field; on success the value returned is the row the INSERT
\* returned.
C17_CreateInsertsFieldsAndTimestamps ==
  \A p \in Callers :
    (Rendered(p) /\ call[p].op = "Create")
      => LET data == call[p].input
             fields == DOMAIN data \cup {CreatedAt, UpdatedAt}
         IN /\ data \in FieldMaps
            /\ \E order \in RangeOrders(fields) :
                 /\ call[p].text =
                      "INSERT INTO " \o Str(m[p].query.table) \o " ("
                        \o StringsJoin([i \in 1..Len(order) |-> Str(order[i])], ", ")
                        \o ") VALUES ("
                        \o StringsJoin([i \in 1..Len(order) |-> "$" \o ToString(i)], ", ")
                        \o ") RETURNING *"
                 /\ call[p].args =
                      [i \in 1..Len(order) |->
                         IF order[i] \in DOMAIN data THEN data[order[i]] ELSE Now]
            /\ (pc[p] = "done" /\ ret[p].status = "ok")
                 => /\ call[p].executed
                    /\ results[p] # <<>>
                    /\ ret[p].value = <<results[p][1]>>

\* Create succeeded for a map in which the caller supplied created_at.
C17_Witness ==
  /\ pc[1] = "done"
  /\ call[1].op = "Create"
  /\ call[1].input = [c \in {CreatedAt} |-> 1]
  /\ ret[1].status = "ok"
  /\ \E i \in 1..Len(call[1].args) : call[1].args[i] = 1

(***************************************************************************)
(* Predicates stored by Where and OrWhere.                                 *)
(***************************************************************************)
\* A stored predicate whose operator is an upper-case member of the
\* allow-list and whose column holds sanitized runes only.
StoredPredicateNormal(w) ==
  /\ Str(w.operator) \in validOperators
  /\ \A j \in 1..Len(w.operator) : w.operator[j] \notin RuneSet(LowerRunes)
  /\ \A j \in 1..Len(w.column) : w.column[j] \in IdentifierRunes

\* The predicate list Where or OrWhere appends to.
PredicateList(q, op) == IF op = "Where" THEN q.wheres ELSE q.orWheres

\* Every predicate the builder holds after the step is normal, and a Where or
\* OrWhere whose operator is in the allow-list when upper-cased appends one
\* predicate made of the sanitized column, the upper-cased operator and the
\* value.
C18_PredicateStep ==
  \A p \in Callers :
    /\ \A i \in 1..Len(Predicates(m'[p].query)) :
         StoredPredicateNormal(Predicates(m'[p].query)[i])
    /\ ( /\ pc[p] = "build"
         /\ IsPredicateCall(call'[p])
         /\ \E allowed \in validOperators :
              /\ Len(allowed) = Len(call'[p].input[2])
              /\ \A j \in 1..Len(allowed) :
                   ToUpperRune(call'[p].input[2][j]) = CharAt(allowed, j) )
       => LET before == PredicateList(m[p].query, call'[p].op)
              after == PredicateList(m'[p].query, call'[p].op)
              stored == after[Len(after)]
          IN /\ Len(after) = Len(before) + 1
             /\ SubSeq(after, 1, Len(before)) = before
             /\ Str(stored.operator) \in validOperators
             /\ Len(stored.operator) = Len(call'[p].input[2])
             /\ \A j \in 1..Len(stored.operator) :
                  stored.operator[j] = ToUpperRune(call'[p].input[2][j])
             /\ IsSubsequence(stored.column, call'[p].input[1])
             /\ Len(stored.column) =
                  Cardinality({j \in 1..Len(call'[p].input[1]) :
                                 call'[p].input[1][j] \in IdentifierRunes})
             /\ stored.value = call'[p].input[3]

\* C18: every predicate Where or OrWhere stores has an operator that is an
\* upper-case member of the allow-list and a sanitized column; operators are
\* accepted whatever their case (like, Not In) and stored upper-cased.
C18_StoredPredicatesNormalized == [][C18_PredicateStep]_vars

\* OrWhere stored NOT IN for the input Not In, with the column sanitized.
C18_Witness ==
  /\ call[1].op = "OrWhere"
  /\ call[1].input[1] = <<"i","d","-","-">>
  /\ call[1].input[2] = <<"N","o","t"," ","I","n">>
  /\ m[1].query.orWheres =
       << [column |-> <<"i","d">>, operator |-> <<"N","O","T"," ","I","N">>, value |-> 1] >>

(***************************************************************************)
(* The WHERE clause.                                                       *)
(***************************************************************************)
\* What follows the WHERE clause in the text of the operation: the LIMIT of
\* the builder, which buildSelectQuery writes for Get and First when it is
\* positive (no offset, order or grouping can be set).
ClauseTail(op, q) ==
  IF op \in {"Get", "First"} /\ q.limit > 0 THEN " LIMIT " \o ToString(q.limit) ELSE ""

\* The predicates as they are expected in the text, numbered from start on.
PredicateTexts(preds, start) ==
  [i \in 1..Len(preds) |->
     Str(preds[i].column) \o " " \o Str(preds[i].operator)
       \o " $" \o ToString(start + i - 1)]

\* C19: without AND- and OR-predicates no WHERE clause is rendered at all;
\* otherwise the clause is WHERE, the AND-predicates in insertion order joined
\* by AND, then the OR-predicates in insertion order each preceded by OR
\* except the very first predicate of the clause; Where(id = 1) with
\* OrWhere(id = 2) renders WHERE id = $1 OR id = $2, whichever was called first.
C19_WhereClauseShape ==
  \A p \in Callers :
    (Rendered(p) /\ call[p].op \in {"Get", "First", "Delete", "Update"})
      => LET q == m[p].query
             clause == WhereClauseOf(call[p].text)
         IN IF Predicates(q) = <<>>
              THEN clause = ""
              ELSE LET start == Placeholders(clause)[1]
                       ands == PredicateTexts(q.wheres, start)
                       ors == PredicateTexts(q.orWheres, start + Len(q.wheres))
                   IN /\ clause =
                           " WHERE " \o StringsJoin(ands, " AND ")
                             \o (IF ands # <<>> /\ ors # <<>> THEN " OR " ELSE "")
                             \o StringsJoin(ors, " OR ")
                             \o ClauseTail(call[p].op, q)
                      /\ ( /\ call[p].op = "Delete"
                           /\ q.wheres = <<whereClause(<<"i","d">>, <<"=">>, 1)>>
                           /\ q.orWheres = <<whereClause(<<"i","d">>, <<"=">>, 2)>> )
                         => call[p].text = "DELETE FROM users WHERE id = $1 OR id = $2"

\* Delete rendered the scenario's clause from one AND- and one OR-predicate.
C19_Witness ==
  /\ Rendered(1)
  /\ call[1].op = "Delete"
  /\ call[1].text = "DELETE FROM users WHERE id = $1 OR id = $2"
  /\ call[1].args = <<1, 2>>

\* The arguments of the joins that have a condition, in join order.
JoinArguments(q) ==
  FlattenArgs([i \in 1..Len(q.joins) |->
                 IF q.joins[i].condition = "" THEN <<>> ELSE q.joins[i].args])

\* The placeholder number the WHERE clause of the operation starts at.
StartIndexOf(op, q, input) ==
  IF op \in {"Get", "First"} THEN Len(JoinArguments(q)) + 1
  ELSE IF op = "Update" THEN Cardinality(DOMAIN input) + 1
  ELSE 1

\* C20: buildWhereClause(start) with p predicates emits exactly the
\* placeholders $start .. $start+p-1, one per predicate in emission order, and
\* returns the p values in that order; in a SELECT start is the number of join
\* arguments plus one and the join arguments come first in the argument list.
C20_WherePlaceholders ==
  \A p \in Callers :
    (Rendered(p) /\ call[p].op \in {"Get", "First", "Delete", "Update"})
      => LET q == m[p].query
             preds == Predicates(q)
             start == StartIndexOf(call[p].op, q, call[p].input)
             args == call[p].args
         IN /\ Placeholders(WhereClauseOf(call[p].text)) = Counting(start, Len(preds))
            /\ Len(args) = start - 1 + Len(preds)
            /\ \A j \in 1..Len(preds) : args[start - 1 + j] = preds[j].value
            /\ call[p].op \in {"Get", "First"}
                 => args = JoinArguments(q) \o [j \in 1..Len(preds) |-> preds[j].value]

\* Get rendered a SELECT with a join argument and an AND- and an OR-predicate
\* numbered $2 and $3.
C20_Witness ==
  /\ Rendered(1)
  /\ call[1].op = "Get"
  /\ Len(JoinArguments(m[1].query)) = 1
  /\ Len(m[1].query.wheres) = 1
  /\ Len(m[1].query.orWheres) = 1
  /\ Placeholders(WhereClauseOf(call[1].text)) = <<2, 3>>

(***************************************************************************)
(* First on top of Get.                                                    *)
(***************************************************************************)
\* The caller keeps the *Model after a terminal operation returned and goes
\* on calling methods of it: the builder holds what the operation left in it.
Reuse(p) ==
  /\ pc[p] = "done"
  /\ call[p].op \in {"Get", "First", "Delete"}
  /\ pc' = [pc EXCEPT ![p] = "build"]
  /\ call' = [call EXCEPT ![p] = NoCall]
  /\ stmt' = [stmt EXCEPT ![p] = 0]
  /\ rowsLeft' = [rowsLeft EXCEPT ![p] = 0]
  /\ results' = [results EXCEPT ![p] = <<>>]
  /\ ret' = [ret EXCEPT ![p] = NoRet]
  /\ UNCHANGED <<handlerVars, lifecycleVars, cacheVars, muVars, cleanupVars, m>>

\* One caller issuing Get, First and Delete, also again on the builder an
\* earlier First left behind, with or without a cancelable context.
NextFirst ==
  \/ Startup
  \/ Table(1)
  \/ WithContext(1)
  \/ Cancel(1)
  \/ Get(1)
  \/ First(1)
  \/ Delete(1)
  \/ Run(1)
  \/ Reuse(1)

SpecFirst == Init /\ [][NextFirst]_vars

\* The failures Get can return from the position its caller p is at.
C21_GetFailures(p) ==
  IF pc[p] = "locked"
    THEN {Fail("PrepareFailure", o) : o \in PrepareOutcomes(m[p].ctx) \ {"ok"}}
  ELSE IF pc[p] = "exec"
    THEN {Fail("ExecutionFailure", o) : o \in ExecOutcomes(stmt[p], m[p].ctx) \ {"ok"}}
  ELSE IF pc[p] = "columns" /\ m[p].ctx = "canceled"
    THEN {Fail("ScanFailure", "canceled")}
  ELSE IF pc[p] = "scan" /\ rowsLeft[p] > 0
    THEN {Fail("ScanFailure", IF m[p].ctx = "canceled" THEN "canceled" ELSE "engine")}
  ELSE {}

\* The step that renders for First, and the step by which First returns.
C21_FirstStep ==
  \A p \in Callers :
    /\ (pc[p] = "build" /\ pc'[p] = "rlock" /\ call'[p].op = "First")
         => LET get == buildSelectQuery([m[p].query EXCEPT !.limit = 1])
            IN /\ call'[p].text = get.text
               /\ call'[p].args = get.values
               /\ SubSeq(get.text, Len(get.text) - 7, Len(get.text)) = " LIMIT 1"
    /\ (call[p].op = "First" /\ InFlight(p) /\ pc'[p] = "done")
         => \/ /\ ret'[p].status = "ok"
               /\ pc[p] = "scan"
               /\ results[p] # <<>>
               /\ ret'[p].value = <<results[p][1]>>
            \/ /\ ret'[p] = Fail("NoRows", "none")
               /\ pc[p] = "scan"
               /\ results[p] = <<>>
            \/ ret'[p] \in C21_GetFailures(p)

\* C21: First renders and runs the query Get would for the same builder with
\* the limit forced to 1, whatever limit the builder held; it returns exactly
\* one mapping, the head of Get's result, fails with NoRows when that result
\* is empty, and returns any failure of Get as it is.
C21_FirstIsGetLimitedToOne == [][C21_FirstStep]_vars

\* First returned the one row of a query rendered with LIMIT 1, after a Get on
\* the same table had cached the text without the limit.
C21_Witness ==
  \E p \in Callers :
    /\ pc[p] = "done"
    /\ call[p].op = "First"
    /\ call[p].text = "SELECT users.* FROM users LIMIT 1"
    /\ "SELECT users.* FROM users" \in DOMAIN prepared
    /\ ret[p] = Ok(<<1>>)

(***************************************************************************)
(* Failure of the compilation in prepareQuery.                             *)
(***************************************************************************)
\* The step of prepareQuery under the write lock when the text is not cached,
\* and the step of its shared-lock lookup.
C22_CompileStep ==
  \A p \in Callers :
    /\ (pc[p] = "locked" /\ call[p].text \notin DOMAIN prepared /\ pc'[p] # pc[p])
         => \/ /\ pc'[p] = "done"
               /\ ret'[p].status = "PrepareFailure"
               /\ ret'[p].cause \in PrepareOutcomes(m[p].ctx) \ {"ok"}
               /\ stmt'[p] = 0
               /\ prepared' = prepared
               /\ stmts' = stmts
               /\ muWriter' = 0
            \/ /\ pc'[p] = "exec"
               /\ Len(stmts') = Len(stmts) + 1
               /\ stmts'[Len(stmts')] = [query |-> call[p].text, closed |-> FALSE]
               /\ prepared'[call[p].text] = Len(stmts')
               /\ stmt'[p] = Len(stmts')
               /\ muWriter' = 0
    /\ (pc[p] = "lookup" /\ call[p].text \notin DOMAIN prepared /\ pc'[p] # pc[p])
         => pc'[p] = "lock" /\ ret'[p] = ret[p]
    /\ (pc'[p] = "done" /\ ret'[p].status = "PrepareFailure") => pc[p] \in {"locked", "done"}

\* C22: when the compilation of a text fails in prepareQuery the caller gets
\* PrepareFailure with the cause, nothing is inserted into the cache for the
\* text, and the exclusive lock is released; a lookup of a text that is not
\* cached always goes on to the write lock, where the text is compiled again
\* (a failure is never cached).
C22_CompileFailureNotCached == [][C22_CompileStep]_vars

\* A caller's compilation of a text failed, and the same text was compiled
\* and cached for another caller afterwards.
C22_Witness ==
  \E p, r \in Callers :
    /\ p # r
    /\ pc[p] = "done"
    /\ ret[p].status = "PrepareFailure"
    /\ ret[p].cause = "engine"
    /\ muWriter = 0
    /\ pc[r] = "exec"
    /\ call[r].text = call[p].text
    /\ call[p].text \in DOMAIN prepared
    /\ stmt[r] = prepared[call[p].text]
    /\ Len(stmts) = 1

(***************************************************************************)
(* Lookups while another text is compiled.                                 *)
(***************************************************************************)
CacheTables == { <<"u","s","e","r","s">>, <<"t","a","g","s">> }

\* Callers issue Delete on one of two tables, so that two distinct SQL texts
\* are requested from prepareQuery.
NextTexts ==
  \/ Startup
  \/ \E p \in Callers :
       \/ \E tableName \in CacheTables : TableCall(p, tableName)
       \/ Delete(p)
       \/ PrepareRLock(p)
       \/ PrepareLookup(p)
       \/ PrepareLock(p)
       \/ PrepareCompile(p)
       \/ Exec(p)
       \/ Return(p)

SpecTexts == Init /\ [][NextTexts]_vars

\* C23: a lookup that hits the cache never waits for another caller's
\* compilation of a different text: while a caller holds the write lock to
\* compile text B, a caller whose text A is cached can take the shared lock
\* and complete its lookup.
C23_HitNeverWaitsForCompile ==
  \A p, r \in Callers :
    ( /\ pc[p] = "locked"
      /\ call[p].text \notin DOMAIN prepared
      /\ pc[r] = "rlock"
      /\ call[r].text \in DOMAIN prepared
      /\ call[r].text # call[p].text )
    => ENABLED PrepareRLock(r)

\* A caller or Cleanup is blocked in mu.Lock().
WriterPending == clPc = "lock" \/ \E p \in Callers : pc[p] = "lock"

\* C23 as amended: lookups are not serialized with one another, only with
\* writers: a caller can take the shared lock whenever nobody holds or awaits
\* the exclusive lock, however many lookups are in progress; while a caller
\* holds the exclusive lock (to re-check and compile any text) no lookup can
\* proceed and no shared lock is held.
C23_LookupWaitsOnlyForWriters ==
  /\ muWriter # 0 => muReaders = {}
  /\ \A r \in Callers :
       pc[r] = "rlock"
         => /\ muWriter # 0 => ~ENABLED PrepareRLock(r)
            /\ (muWriter = 0 /\ ~WriterPending) => ENABLED PrepareRLock(r)

\* A caller holds the write lock to compile a text while another caller, whose
\* different text is cached, is about to look it up.
C23_Witness ==
  \E p, r \in Callers :
    /\ pc[p] = "locked"
    /\ call[p].text \notin DOMAIN prepared
    /\ pc[r] = "rlock"
    /\ call[r].text \in DOMAIN prepared
    /\ call[r].text # call[p].text

(***************************************************************************)
(* UserRepository.GetByID on top of First.                                 *)
(***************************************************************************)
\* orm.ErrNoRows and database/sql's ErrNoRows: two distinct error values.
ErrNoRows == "orm: no rows found"

sqlErrNoRows == "sql: no rows in result set"

\* The error First returned, as the chain errors.Is walks with Unwrap: Get
\* wraps the errors of prepareQuery and of QueryContext with %w, scanRows
\* returns the error of rows.Scan as it is, First returns ErrNoRows itself.
ErrorChain(r) ==
  IF r.status = "NoRows" THEN <<ErrNoRows>>
  ELSE IF r.status = "PrepareFailure" THEN <<"prepare query error", r.cause>>
  ELSE IF r.status = "ExecutionFailure" THEN <<"query error", r.cause>>
  ELSE <<r.cause>>

\* errors.Is(err, target)
errorsIs(chain, target) == \E i \in 1..Len(chain) : chain[i] = target

\* The builder of GetByID: Table("users").WithContext(ctx).Select("id",
\* "username", "email", "password").Where("id", "=", id), and First's limit.
GetByIDQuery(id) ==
  [NewQuery(<<"u","s","e","r","s">>) EXCEPT
     !.selections = sanitizeColumns(<< <<"i","d">>,
                                       <<"u","s","e","r","n","a","m","e">>,
                                       Email,
                                       <<"p","a","s","s","w","o","r","d">> >>),
     !.wheres = <<whereClause(<<"i","d">>, <<"=">>, id)>>,
     !.limit = 1]

\* UserRepository.GetByID(ctx, id) up to First's call of prepareQuery.
GetByIDCall(p, id) ==
  /\ OrmReady
  /\ pc[p] = "idle"
  /\ m' = [m EXCEPT ![p] = [ctx |-> "live", query |-> GetByIDQuery(id)]]
  /\ call' = [call EXCEPT ![p] =
                StartCall("First", <<"GetByID", id>>, buildSelectQuery(GetByIDQuery(id)))]
  /\ pc' = [pc EXCEPT ![p] = "rlock"]
  /\ UNCHANGED <<handlerVars, lifecycleVars, cacheVars, muVars, cleanupVars,
                 stmt, rowsLeft, results, ret>>

\* GetByID after First returned: data, or the error of First wrapped as
\* "user not found" when it is sql.ErrNoRows and as "error getting user"
\* otherwise. The cause keeps the class of First's failure.
GetByIDReturn(p) ==
  /\ pc[p] = "done"
  /\ call[p].op = "First"
  /\ call[p].input # <<>>
  /\ call' = [call EXCEPT ![p].op = "GetByID"]
  /\ ret' = [ret EXCEPT ![p] =
       IF ret[p].status = "ok" THEN ret[p]
       ELSE IF errorsIs(ErrorChain(ret[p]), sqlErrNoRows)
         THEN Fail("user not found", ret[p].status)
         ELSE Fail("error getting user", ret[p].status)]
  /\ UNCHANGED <<handlerVars, lifecycleVars, cacheVars, muVars, cleanupVars,
                 pc, m, stmt, rowsLeft, results>>

\* GetByID has returned to its caller.
GetByIDDone(p) ==
  /\ call[p].op = "GetByID"
  /\ Return(p)

\* Callers looking users up by id through the repository, each with a request
\* context that can be canceled.
NextRepo ==
  \/ Startup
  \/ \E p \in Callers :
       \/ \E id \in ParamValues : GetByIDCall(p, id)
       \/ Cancel(p)
       \/ PrepareRLock(p)
       \/ PrepareLookup(p)
       \/ PrepareLock(p)
       \/ PrepareCompile(p)
       \/ Exec(p)
       \/ ScanColumns(p)
       \/ ScanRow(p)
       \/ ScanEnd(p)
       \/ GetByIDReturn(p)
       \/ GetByIDDone(p)

SpecRepo == Init /\ [][NextRepo]_vars

\* C24: when First fails with NoRows because no user has the id, GetByID
\* returns the distinguished error "user not found" and not the generic
\* "error getting user".
C24_NotFoundDistinguished ==
  \A p \in Callers :
    (pc[p] = "done" /\ call[p].op = "GetByID" /\ ret[p].cause = "NoRows")
      => ret[p].status = "user not found"

(***************************************************************************)
(* UserHandler.CreateUser and the Validator the handler shares.            *)
(***************************************************************************)
\* types.CreateUserPayload values a request body can decode to, each a
\* sequence of runes. Every payload breaks one rule: a UserName of one
\* no-break space, an Email without a domain, a Password of six runes and seven
\* bytes. The other Passwords have seven runes and eight bytes.
Payloads ==
  LET bob == <<"b","o","b">>
      address == <<"b","o","b","@","x",".","i","o">>
      password == <<"1","2","3","4","5","6","U+00E9">>
  IN { [UserName |-> <<"U+00A0">>, Email |-> address, Password |-> password],
       [UserName |-> bob, Email |-> bob, Password |-> password],
       [UserName |-> bob, Email |-> address,
        Password |-> <<"1","2","3","4","5","U+00E9">>] }

\* The validate tags of CreateUserPayload in the order Validate visits them,
\* with the message validateField adds when the rule fails.
ValidationRules ==
  << [Field |-> "UserName", Rule |-> "required", Message |-> "field is required"],
     [Field |-> "Email",    Rule |-> "required", Message |-> "field is required"],
     [Field |-> "Email",    Rule |-> "email",    Message |-> "invalid email format"],
     [Field |-> "Password", Rule |-> "required", Message |-> "field is required"],
     [Field |-> "Password", Rule |-> "min",      Message |-> "length must be at least 8"],
     [Field |-> "Password", Rule |-> "max",      Message |-> "length must not exceed 130"] >>

\* Validator.email: ^[a-zA-Z0-9._%+-]+@[a-zA-Z0-9.-]+\.[a-zA-Z]{2,}$
email(value) ==
  LET letters == RuneSet(LowerRunes) \cup RuneSet(UpperRunes)
      alnum == letters \cup RuneSet(DigitRunes)
      In(i, j, set) == \A k \in i..j : value[k] \in set
  IN \E at \in 2..Len(value), dot \in 4..Len(value) :
       /\ value[at] = "@"
       /\ value[dot] = "."
       /\ at + 1 < dot
       /\ dot + 2 <= Len(value)
       /\ In(1, at - 1, alnum \cup {".", "_", "%", "+", "-"})
       /\ In(at + 1, dot - 1, alnum \cup {".", "-"})
       /\ In(dot + 1, Len(value), letters)

\* unicode.IsSpace, the runes strings.TrimSpace strips.
WhiteSpace ==
  {" ", "\t", "\n", "\r", "\f", "U+000B", "U+0085", "U+00A0", "U+1680",
   "U+2028", "U+2029", "U+202F", "U+205F", "U+3000"}
    \cup {RuneOf(cp) : cp \in \H2000..\H200A}

\* The bytes of a rune in UTF-8.
RuneLen(r) ==
  IF Len(r) = 1 THEN 1
  ELSE LET cp == CodePoint(r)
       IN IF cp < \H80 THEN 1 ELSE IF cp < \H800 THEN 2
          ELSE IF cp < \H10000 THEN 3 ELSE 4

\* len(s): the bytes of the string.
RECURSIVE len(_)
len(value) == IF value = <<>> THEN 0 ELSE RuneLen(Head(value)) + len(Tail(value))

\* validateField: whether the value of a string field passes the rule
\* (required, email, min=8, max=130).
RuleHolds(rule, value) ==
  IF rule = "required" THEN \E i \in 1..Len(value) : value[i] \notin WhiteSpace
  ELSE IF rule = "email" THEN email(value)
  ELSE IF rule = "min" THEN len(value) >= 8
  ELSE len(value) <= 130

\* CreateUser: ParseJSON decodes the body, or fails and the handler answers
\* 400.
CreateUser(r) ==
  /\ mainPc = "serving"
  /\ requests[r].pc = "idle"
  /\ \/ \E payload \in Payloads :
          requests' = [requests EXCEPT ![r] =
            [NoRequest EXCEPT !.pc = "reset", !.payload = payload]]
     \/ requests' = [requests EXCEPT ![r] =
          [NoRequest EXCEPT !.pc = "responded", !.response.status = 400]]
  /\ UNCHANGED <<ormVars, validatorErrors>>

\* Validate: v.errors = []ValidationError{}
ValidateReset(r) ==
  /\ requests[r].pc = "reset"
  /\ validatorErrors' = <<>>
  /\ requests' = [requests EXCEPT ![r].pc = "rules", ![r].rule = 1]
  /\ UNCHANGED ormVars

\* Validate: one call of validateField. When the rule fails addError starts:
\* it reads v.errors, the operand of append.
validateField(r) ==
  /\ requests[r].pc = "rules"
  /\ requests[r].rule <= Len(ValidationRules)
  /\ LET rule == ValidationRules[requests[r].rule]
     IN requests' =
          IF RuleHolds(rule.Rule, requests[r].payload[rule.Field])
            THEN [requests EXCEPT ![r].rule = @ + 1]
            ELSE [requests EXCEPT ![r].pc = "addError", ![r].loaded = validatorErrors]
  /\ UNCHANGED <<ormVars, validatorErrors>>

\* addError: v.errors = append(<the slice read>, ValidationError{...}). No lock
\* guards v.errors, so the store may overwrite the store of another request.
addError(r) ==
  /\ requests[r].pc = "addError"
  /\ validatorErrors' = Append(requests[r].loaded, ValidationRules[requests[r].rule])
  /\ requests' = [requests EXCEPT ![r].pc = "rules", ![r].rule = @ + 1,
                                  ![r].loaded = <<>>]
  /\ UNCHANGED ormVars

\* Validate: after the loops, "validation failed" when len(v.errors) > 0.
ValidateReturn(r) ==
  /\ requests[r].pc = "rules"
  /\ requests[r].rule > Len(ValidationRules)
  /\ requests' = [requests EXCEPT ![r].pc = "validated",
                                  ![r].err = Len(validatorErrors) > 0]
  /\ UNCHANGED <<ormVars, validatorErrors>>

\* CreateUser when Validate returned an error: 422 with
\* h.Validator.GetErrors().
CreateUserReject(r) ==
  /\ requests[r].pc = "validated"
  /\ requests[r].err
  /\ requests' = [requests EXCEPT ![r].pc = "responded",
       ![r].response = [status |-> 422, errors |-> validatorErrors]]
  /\ UNCHANGED <<ormVars, validatorErrors>>

\* The map UserRepository.Create passes to Model.Create.
UserFields(payload) ==
  (<<"u","s","e","r","n","a","m","e">> :> payload.UserName)
    @@ (Email :> payload.Email)
    @@ (<<"p","a","s","s","w","o","r","d">> :> payload.Password)

\* CreateUser when Validate returned nil: UserService.CreateUser ->
\* UserRepository.Create -> orm.Table("users").Create(fields), up to Create's
\* call of prepareQuery. The goroutine of request r is the ORM's caller r.
CreateUserService(r) ==
  /\ requests[r].pc = "validated"
  /\ ~requests[r].err
  /\ OrmReady
  /\ pc[r] = "idle"
  /\ LET q == NewQuery(<<"u","s","e","r","s">>)
         data == UserFields(requests[r].payload)
     IN /\ m' = [m EXCEPT ![r] = [ctx |-> "background", query |-> q]]
        /\ \E order \in RangeOrders(DOMAIN CreateNewData(data)) :
             call' = [call EXCEPT ![r] =
               StartCall("Create", data, CreateQuery(q, CreateNewData(data), order))]
  /\ pc' = [pc EXCEPT ![r] = "rlock"]
  /\ requests' = [requests EXCEPT ![r].pc = "service"]
  /\ UNCHANGED <<lifecycleVars, cacheVars, muVars, cleanupVars,
                 stmt, rowsLeft, results, ret, validatorErrors>>

\* CreateUser after the service returned: 201 with the data, or 500 when
\* Create failed.
CreateUserServiceReturn(r) ==
  /\ requests[r].pc = "service"
  /\ pc[r] = "done"
  /\ requests' = [requests EXCEPT ![r].pc = "responded",
       ![r].response = [status |-> IF ret[r].status = "ok" THEN 201 ELSE 500,
                        errors |-> <<>>]]
  /\ pc' = [pc EXCEPT ![r] = "idle"]
  /\ m' = [m EXCEPT ![r] = ZeroModel]
  /\ call' = [call EXCEPT ![r] = NoCall]
  /\ stmt' = [stmt EXCEPT ![r] = 0]
  /\ rowsLeft' = [rowsLeft EXCEPT ![r] = 0]
  /\ results' = [results EXCEPT ![r] = <<>>]
  /\ ret' = [ret EXCEPT ![r] = NoRet]
  /\ UNCHANGED <<lifecycleVars, cacheVars, muVars, cleanupVars, validatorErrors>>

\* Concurrent CreateUser requests handled by the one UserHandler, one per
\* goroutine.
NextHandler ==
  \/ Startup
  \/ \E r \in Callers :
       \/ CreateUser(r)
       \/ ValidateReset(r)
       \/ validateField(r)
       \/ addError(r)
       \/ ValidateReturn(r)
       \/ CreateUserReject(r)
       \/ CreateUserService(r)
       \/ PrepareRLock(r)
       \/ PrepareLookup(r)
       \/ PrepareLock(r)
       \/ PrepareCompile(r)
       \/ Exec(r)
       \/ ScanColumns(r)
       \/ ScanRow(r)
       \/ ScanEnd(r)
       \/ CreateUserServiceReturn(r)

SpecHandler == Init /\ [][NextHandler]_vars

\* The errors Validate finds in a payload when no other request interferes.
C25_OwnErrors(payload) ==
  SelectSeq(ValidationRules, LAMBDA rule : ~RuleHolds(rule.Rule, payload[rule.Field]))

\* C25: under concurrent CreateUser requests the validation outcome of a
\* request depends only on its own payload: it is rejected exactly when its
\* payload has errors, and the errors it reads with GetErrors are exactly the
\* errors of its own payload.
C25_ValidationIsolated ==
  \A r \in Callers :
    (requests[r].pc = "responded" /\ requests[r].response.status # 400)
      => /\ requests[r].response.status = 422
              <=> C25_OwnErrors(requests[r].payload) # <<>>
         /\ requests[r].response.status = 422
              => requests[r].response.errors = C25_OwnErrors(requests[r].payload)

====
